---- MODULE Spec2Model ----
(***************************************************************************)
(* A TLA+ model of Z80Asm.py, a two-pass Z80/Z180/8080 assembler.          *)
(*                                                                         *)
(* The program is single-threaded.  Each subsystem is modelled by its own  *)
(* variables and its own specification (Init /\ [][Next]_vars); the        *)
(* variables of the other subsystems keep their idle value.                *)
(*                                                                         *)
(*   SpecHex    the Intel-HEX sink (class HexOut) driven by AsmPass        *)
(*   SpecBin    the binary sink (class BinOut)                             *)
(*   SpecLabel  the symbol table (Assembler.Label) over two passes         *)
(*   Spec       the assembly pipeline (Assembler.Assemble / AsmPass)       *)
(*   SpecErr    the per-line error record (AsmErr / Parse / AsmPass)       *)
(*   SpecDet    two runs of the same job in different environments         *)
(*   SpecRef    the reformatter's literals and operands, re-parsed         *)
(*   SpecJR     the relative-jump encoder (JR / DJNZ)                      *)
(*   SpecRept   REPT / ENDM rewinding                                      *)
(***************************************************************************)
EXTENDS Integers, Sequences, FiniteSets, TLC

VARIABLES
    hexout,     \* the HexOut object: addr, data, f (records written), ghost loads
    hexlc,      \* the driver's load counter lc[lseg] while it feeds the HEX sink
    hexline,    \* files[-1][1]: number of source lines the driver has read
    binout,     \* the BinOut object: base, data, fill, addr, maxaddr, file f and its position
    binwant,    \* ghost: the bytes the caller wrote, as <<load address, byte>>, in order
    binops,     \* ghost: number of calls made on the binary sink
    publics,    \* Assembler.publics: name -> Label (present, value, file)
    locals,     \* Assembler.locals: source index -> name -> Label
    lab,        \* the assembler while labels are defined: phase, source file, line, sErr, nErr, bStrict
    labsrc,     \* the source files: per source index, the lines read in pass 1
    labp1,      \* ghost: publics and locals as pass 1 left them
    lablast,    \* ghost: the definition made by the last line of pass 2
    src,        \* the source file: the lines read in pass 1, read again in pass 2
    asm,        \* the assembler in Assemble: phase, line, pc, enable stack, labels, sErr, nErr, exit status
    args,       \* the output options of the command line: which artifacts are requested
    disk,       \* the artifacts present on disk
    errst,      \* the assembler while one line is handled: where AsmPass is, sErr, nErr, lines read
    errcalls,   \* ghost: the messages of the AsmErr calls made for the current line, in order
    errbase,    \* ghost: nErr when Parse of the current line started
    det,        \* the run in progress: which run, line, enable stack, sinks initialised, build, finished
    detsrc,     \* the source file, the same for both runs
    detenv,     \* the environment: the clock of each run and the build file
    detout,     \* the bytes delivered to the binary and hex sinks by each run
    ref,        \* one operand on its way through the reformatter: as parsed, as recorded by the encoder, as written in the output dialect, as parsed again
    jr,         \* one JR or DJNZ line: the instruction, PC, target, pass, enable, then the code (mc) and the error Parse left
    rept,       \* AsmPass over a file with REPT blocks: the file position, self.macros, enable, the code delivered, sErr, nErr, end of file
    reptsrc,    \* the lines of the file
    sym,        \* one run over a source of label, IFDEF and DW lines: options, flags, pass, position, enable stack, PC, code delivered, sErr, nErr, publics, labels and the names kept in the Label records
    symsrc,     \* the lines of that source
    ev,         \* one expression handed to EvalArith or a wrapper: the expression, the evaluator (0 full, 1 simple), pass, enable, the label tables, then the value returned, sErr, and whether an exception ended the run
    lit,        \* one hex literal handed to ExprParse: the dialect, the form, the digits written, then the term parsed
    opl,        \* one line holding an op0 mnemonic: the mnemonic, whether text follows it, the PC before and after, the code self.mc, sErr
    scope,      \* the assembler over several sources: pass, source index, the table self.labels points at, position, PC, sErr, nErr, publics, locals, ghost the last name resolved
    scopesrc,   \* the lines of each source, read in pass 1 and again in pass 2
    ifs,        \* the conditional stack over the sources: dialect, source index, lines read, self.enable, nEnable, sErr, nErr, ghost the last conditional line and the stack before it
    ld,         \* the assembler while it counts addresses: options, pass, position, enable stack, pc and lc per segment, pseg, lseg, offset, bUpdate, sErr, nErr, the binary and hex sinks, ghost the last line with the counters before and after it
    ldsrc,      \* the lines of the source, read in pass 1 and again in pass 2
    md,         \* the assembler while its modes change: the assembler record (pass, position, enable stack, cpu_type, eval, segments, counters, macros, labels, sinks), ghost the address and code of each line in pass 1 and the last line with the state around it
    mdsrc       \* the lines of that source, read in pass 1 and again in pass 2

hexVars == <<hexout, hexlc, hexline>>
binVars == <<binout, binwant, binops>>
labVars == <<publics, locals, lab, labsrc, labp1, lablast>>
asmVars == <<src, asm, args, disk>>
errVars == <<errst, errcalls, errbase>>
detVars == <<det, detsrc, detenv, detout>>
refVars == <<ref>>
jrVars == <<jr>>
reptVars == <<rept, reptsrc>>
symVars == <<sym, symsrc>>
evVars == <<ev>>
litVars == <<lit>>
opVars == <<opl>>
scopeVars == <<scope, scopesrc>>
condVars == <<ifs>>
loadVars == <<ld, ldsrc>>
modeVars == <<md, mdsrc>>

vars == <<hexVars, binVars, labVars, asmVars, errVars, detVars, refVars, jrVars, reptVars, symVars, evVars, litVars, opVars, scopeVars, condVars, loadVars, modeVars>>

\* A step of one subsystem changes nothing of the others.
HexFrame == UNCHANGED <<binVars, labVars, asmVars, errVars, detVars, refVars, jrVars, reptVars, symVars, evVars, litVars, opVars, scopeVars, condVars, loadVars, modeVars>>
BinFrame == UNCHANGED <<hexVars, labVars, asmVars, errVars, detVars, refVars, jrVars, reptVars, symVars, evVars, litVars, opVars, scopeVars, condVars, loadVars, modeVars>>
LabFrame == UNCHANGED <<hexVars, binVars, asmVars, errVars, detVars, refVars, jrVars, reptVars, symVars, evVars, litVars, opVars, scopeVars, condVars, loadVars, modeVars>>
AsmFrame == UNCHANGED <<hexVars, binVars, labVars, errVars, detVars, refVars, jrVars, reptVars, symVars, evVars, litVars, opVars, scopeVars, condVars, loadVars, modeVars>>
ErrFrame == UNCHANGED <<hexVars, binVars, labVars, asmVars, detVars, refVars, jrVars, reptVars, symVars, evVars, litVars, opVars, scopeVars, condVars, loadVars, modeVars>>
DetFrame == UNCHANGED <<hexVars, binVars, labVars, asmVars, errVars, refVars, jrVars, reptVars, symVars, evVars, litVars, opVars, scopeVars, condVars, loadVars, modeVars>>
RefFrame == UNCHANGED <<hexVars, binVars, labVars, asmVars, errVars, detVars, jrVars, reptVars, symVars, evVars, litVars, opVars, scopeVars, condVars, loadVars, modeVars>>
JrFrame == UNCHANGED <<hexVars, binVars, labVars, asmVars, errVars, detVars, refVars, reptVars, symVars, evVars, litVars, opVars, scopeVars, condVars, loadVars, modeVars>>
ReptFrame == UNCHANGED <<hexVars, binVars, labVars, asmVars, errVars, detVars, refVars, jrVars, symVars, evVars, litVars, opVars, scopeVars, condVars, loadVars, modeVars>>
SymFrame == UNCHANGED <<hexVars, binVars, labVars, asmVars, errVars, detVars, refVars, jrVars, reptVars, evVars, litVars, opVars, scopeVars, condVars, loadVars, modeVars>>
EvFrame == UNCHANGED <<hexVars, binVars, labVars, asmVars, errVars, detVars, refVars, jrVars, reptVars, symVars, litVars, opVars, scopeVars, condVars, loadVars, modeVars>>
LitFrame == UNCHANGED <<hexVars, binVars, labVars, asmVars, errVars, detVars, refVars, jrVars, reptVars, symVars, evVars, opVars, scopeVars, condVars, loadVars, modeVars>>
OpFrame == UNCHANGED <<hexVars, binVars, labVars, asmVars, errVars, detVars, refVars, jrVars, reptVars, symVars, evVars, litVars, scopeVars, condVars, loadVars, modeVars>>
ScopeFrame == UNCHANGED <<hexVars, binVars, labVars, asmVars, errVars, detVars, refVars, jrVars, reptVars, symVars, evVars, litVars, opVars, condVars, loadVars, modeVars>>
CondFrame == UNCHANGED <<hexVars, binVars, labVars, asmVars, errVars, detVars, refVars, jrVars, reptVars, symVars, evVars, litVars, opVars, scopeVars, loadVars, modeVars>>
LoadFrame == UNCHANGED <<hexVars, binVars, labVars, asmVars, errVars, detVars, refVars, jrVars, reptVars, symVars, evVars, litVars, opVars, scopeVars, condVars, modeVars>>
ModeFrame == UNCHANGED <<hexVars, binVars, labVars, asmVars, errVars, detVars, refVars, jrVars, reptVars, symVars, evVars, litVars, opVars, scopeVars, condVars, loadVars>>

(***************************************************************************)
(* The state after construction.  A specification starts its own subsystem *)
(* and leaves the others idle: XIdle is the state of subsystem X after     *)
(* construction, XFrame says that a step of X changes nothing else.        *)
(***************************************************************************)

\* None, for the integer-valued fields that Python initialises to None.
NoAddr == -1

\* args.fill, the default of --fill.
DefaultFill == 255

\* HexOut.__init__
HexInit == [addr |-> NoAddr, data |-> <<>>, f |-> <<>>, loads |-> <<>>, closed |-> FALSE]

\* BinOut.__init__
BinInit == [base |-> NoAddr, data |-> <<>>, fill |-> DefaultFill, addr |-> 0,
            maxaddr |-> 0, f |-> <<>>, pos |-> 0, closed |-> FALSE, raised |-> FALSE]

HexIdle == /\ hexout = HexInit
           /\ hexlc = 0
           /\ hexline = 0

BinIdle == /\ binout = BinInit
           /\ binwant = <<>>
           /\ binops = 0


\* Label names and the number of source files on the command line (args.source).
Names == {"foo", "bar"}
NFiles == 2
Files == 1..NFiles

\* A name with no Label in a table; Label.value = None is value = NoAddr.
Absent == [present |-> FALSE, value |-> NoAddr, file |-> 0]

\* Assembler.__init__ and the start of Assemble: phase 1, nErr 0, no source yet.
LabIdle == /\ publics = [n \in Names |-> Absent]
           /\ locals = [f \in Files |-> [n \in Names |-> Absent]]
           /\ lab = [phase |-> 1, file |-> 0, pos |-> 0, sErr |-> "none", nErr |-> 0,
                     bStrict |-> FALSE, exit |-> NoAddr]
           /\ labsrc = [f \in Files |-> <<>>]
           /\ labp1 = [publics |-> [n \in Names |-> Absent],
                       locals |-> [f \in Files |-> [n \in Names |-> Absent]]]
           /\ lablast = [def |-> FALSE]

\* The artifacts a run can leave: binary, hex, symbol file, reformatted source.
Artifacts == {"bin", "hex", "sym", "out"}

\* Assemble at the start of pass 1: phase 1, nErr 0, enable = [True].
AsmIdle == /\ src = <<>>
           /\ asm = [phase |-> 1, pos |-> 0, pc |-> 0, enable |-> <<TRUE>>,
                     labels |-> [n \in Names |-> Absent],
                     sErr |-> "none", nErr |-> 0, exit |-> NoAddr]
           /\ args = {}
           /\ disk = {}

\* AsmPass before the first line is read: no error recorded, none counted.
ErrIdle == /\ errst = [at |-> "read", sErr |-> "none", nErr |-> 0, line |-> 0]
           /\ errcalls = <<>>
           /\ errbase = 0

\* The clock read by time.strftime: day of the month, hour, minute.
Clocks == {[day |-> 6, hour |-> 23, min |-> 59], [day |-> 7, hour |-> 0, min |-> 5]}

\* The number stored in the build file before the first run.
BuildFiles == {0, 9}

\* The first of two runs about to read its first line; self.build = None.
DetIdle == /\ det = [run |-> 1, pos |-> 0, enable |-> <<TRUE>>, loaded |-> FALSE,
                     build |-> NoAddr, done |-> FALSE]
           /\ detsrc = <<>>
           /\ detenv = [clock |-> [r \in 1..2 |-> [day |-> 6, hour |-> 23, min |-> 59]],
                        buildfile |-> 0]
           /\ detout = <<<< >>, << >>>>

\* The output dialects of the reformatter, the literal kinds of ExprParse
\* (binary, decimal, hex, octal) and the operand forms: a 16-bit immediate
\* (LD HL,nn) and an indexed address (LD A,(IX+d), LD A,(IY+d)).
Styles == {"MA", "M80", "ZASM"}
Kinds == {"B", "D", "H", "Q"}
RefValues == {0, 5, 9, 10, 127, 159, 160, 255, 256, 257, 4096, 40959, 40960, 65535}
Operands == [form : {"imm"}, reg : {""}, kind : Kinds, value : RefValues]
              \cup [form : {"idx"}, reg : {"IX", "IY"}, kind : Kinds,
                    value : {v \in RefValues : v < 128}]

\* No result yet.
NoParse == [ok |-> FALSE, prefix |-> 0, kind |-> "", value |-> NoAddr]

\* No operand in the reformatter.
RefIdle == ref = [at |-> "none", styOut |-> "M80",
                  operand |-> [form |-> "imm", reg |-> "", kind |-> "D", value |-> 0],
                  prefix |-> 0, args |-> <<>>, text |-> <<>>, back |-> NoParse]

\* No relative jump being assembled.
JrIdle == jr = [at |-> "none", op |-> "JR", cond |-> "", pc |-> 0, target |-> 0,
                phase |-> 1, enable |-> TRUE, mc |-> <<>>, sErr |-> "none", nErr |-> 0]

\* AsmPass with no file: self.macros = [].
ReptIdle == /\ rept = [pos |-> 1, macros |-> <<>>, enable |-> TRUE, out |-> <<>>,
                       sErr |-> "none", nErr |-> 0, done |-> FALSE]
            /\ reptsrc = <<>>

\* The names a source writes for one symbol, as character sequences.
SymNames == {<<"F", "O", "O">>, <<"F", "o", "o">>, <<"f", "o", "o">>}
NoName == <<>>
AllStyles == {"MA", "M80", "PASMO", "ZASM"}

\* The assembler before Assemble reads its options: no symbol in any table.
SymIdle ==
    /\ sym = [at |-> "none", style |-> "MA", define |-> NoName, bLabCase |-> FALSE,
              bStrict |-> FALSE, phase |-> 1, pos |-> 0, enable |-> <<TRUE>>,
              pc |-> 0, out |-> <<>>, sErr |-> "none", nErr |-> 0,
              publics |-> [k \in SymNames |-> Absent],
              labels |-> [k \in SymNames |-> Absent],
              pnames |-> [k \in SymNames |-> NoName],
              lnames |-> [k \in SymNames |-> NoName]]
    /\ symsrc = <<>>

\* No expression handed to an evaluator.
EvIdle ==
    ev = [at |-> "none", wrap |-> "EvalArith", src |-> [opnds |-> <<>>, ops |-> <<>>],
          eval |-> 0, phase |-> 1, enable |-> TRUE,
          labels |-> [n \in Names |-> Absent], publics |-> [n \in Names |-> Absent],
          value |-> 0, sErr |-> "none", abort |-> FALSE]

\* No literal handed to ExprParse.
LitIdle == lit = [at |-> "none", style |-> "MA", form |-> "#", digits |-> <<>>,
                  term |-> NoParse]

\* No line handed to Parse.
OpIdle == opl = [at |-> "none", sOpCode |-> "NOP", args |-> FALSE, pc0 |-> 0, pc |-> 0,
                 mc |-> <<>>, sErr |-> "none"]

\* The assembler before the first source: empty tables, self.labels not yet set.
ScopeIdle ==
    /\ scope = [phase |-> 1, file |-> 0, labels |-> 0, pos |-> 0, pc |-> 0,
                bStrict |-> FALSE, sErr |-> "none", nErr |-> 0, exit |-> NoAddr,
                publics |-> [n \in Names |-> Absent],
                locals |-> [f \in Files |-> [n \in Names |-> Absent]],
                ref |-> [done |-> FALSE, name |-> "", value |-> 0]]
    /\ scopesrc = [f \in Files |-> <<>>]

\* Assemble before the first source: the conditional stack holds True (3058).
CondIdle ==
    ifs = [style |-> "MA", file |-> 0, pos |-> 0, enable |-> <<TRUE>>, nEnable |-> 1,
           sErr |-> "none", nErr |-> 0, op |-> "none", arg |-> 0, prev |-> <<TRUE>>]

\* The segments, and a counter per segment at zero.
Segs == {"A", "C", "D"}
ZeroCounters == [s \in Segs |-> 0]

\* The assembler after __init__: absolute segment, counters zero, no sink.
LoadIdle ==
    /\ ld = [at |-> "none", style |-> "M80", upd |-> FALSE, bin |-> FALSE, hex |-> FALSE,
             out |-> FALSE, refopen |-> FALSE, refout |-> 0,
             phase |-> 1, pos |-> 0, enable |-> <<TRUE>>,
             pc |-> ZeroCounters, lc |-> ZeroCounters, pseg |-> "A", lseg |-> "A",
             offset |-> 0, bUpdate |-> FALSE, sErr |-> "none", nErr |-> 0,
             binopen |-> FALSE, hexopen |-> FALSE, binout |-> BinInit, hexout |-> HexInit,
             last |-> [op |-> "none", enabled |-> TRUE, mc |-> <<>>, nSpace |-> 0,
                       pc0 |-> 0, lc0 |-> 0, pc1 |-> 0, lc1 |-> 0,
                       pcs |-> ZeroCounters, lcs |-> ZeroCounters,
                       binpos |-> NoAddr, hexpos |-> NoAddr, bUpdate |-> FALSE]]
    /\ ldsrc = <<>>

\* What a line in a disabled block is to leave alone: the counters, the
\* segments, the symbol table, the REPT stack, the CPU type, the evaluator
\* mode and the sinks with their fill byte.
ModeKept(s) ==
    [pc |-> s.pc, lc |-> s.lc, pseg |-> s.pseg, lseg |-> s.lseg, labels |-> s.labels,
     macros |-> s.macros, cpu_type |-> s.cpu_type, eval |-> s.eval,
     binout |-> s.binout, hexout |-> s.hexout]

\* Assembler.__init__ (3161-3185): segments 'A', counters and offset zero,
\* eval 0, no macros, no sinks.
ModeFresh ==
    [at |-> "none", style |-> "M80", upd |-> FALSE, cpu0 |-> "Z80",
     phase |-> 1, pos |-> 0, enable |-> <<TRUE>>, cpu_type |-> "Z80", eval |-> 0,
     pc |-> ZeroCounters, lc |-> ZeroCounters, pseg |-> "A", lseg |-> "A",
     offset |-> 0, bUpdate |-> FALSE, macros |-> <<>>,
     labels |-> [n \in Names |-> Absent], sErr |-> "none", nErr |-> 0,
     binopen |-> FALSE, hexopen |-> FALSE, binout |-> BinInit, hexout |-> HexInit]

ModeNoLine ==
    [op |-> "none", enabled |-> TRUE, mc |-> <<>>, pc0 |-> 0, sErr |-> "none",
     before |-> ModeKept(ModeFresh), after |-> ModeKept(ModeFresh)]

ModeIdle ==
    /\ md = [s |-> ModeFresh, p1 |-> <<>>, last |-> ModeNoLine]
    /\ mdsrc = <<>>

\* Everything but one subsystem idle.
HexRest == BinIdle /\ LabIdle /\ AsmIdle /\ ErrIdle /\ DetIdle /\ RefIdle /\ JrIdle /\ ReptIdle /\ SymIdle /\ EvIdle /\ LitIdle /\ OpIdle /\ ScopeIdle /\ CondIdle /\ LoadIdle /\ ModeIdle
BinRest == HexIdle /\ LabIdle /\ AsmIdle /\ ErrIdle /\ DetIdle /\ RefIdle /\ JrIdle /\ ReptIdle /\ SymIdle /\ EvIdle /\ LitIdle /\ OpIdle /\ ScopeIdle /\ CondIdle /\ LoadIdle /\ ModeIdle
LabRest == HexIdle /\ BinIdle /\ AsmIdle /\ ErrIdle /\ DetIdle /\ RefIdle /\ JrIdle /\ ReptIdle /\ SymIdle /\ EvIdle /\ LitIdle /\ OpIdle /\ ScopeIdle /\ CondIdle /\ LoadIdle /\ ModeIdle
AsmRest == HexIdle /\ BinIdle /\ LabIdle /\ ErrIdle /\ DetIdle /\ RefIdle /\ JrIdle /\ ReptIdle /\ SymIdle /\ EvIdle /\ LitIdle /\ OpIdle /\ ScopeIdle /\ CondIdle /\ LoadIdle /\ ModeIdle
ErrRest == HexIdle /\ BinIdle /\ LabIdle /\ AsmIdle /\ DetIdle /\ RefIdle /\ JrIdle /\ ReptIdle /\ SymIdle /\ EvIdle /\ LitIdle /\ OpIdle /\ ScopeIdle /\ CondIdle /\ LoadIdle /\ ModeIdle
DetRest == HexIdle /\ BinIdle /\ LabIdle /\ AsmIdle /\ ErrIdle /\ RefIdle /\ JrIdle /\ ReptIdle /\ SymIdle /\ EvIdle /\ LitIdle /\ OpIdle /\ ScopeIdle /\ CondIdle /\ LoadIdle /\ ModeIdle
RefRest == HexIdle /\ BinIdle /\ LabIdle /\ AsmIdle /\ ErrIdle /\ DetIdle /\ JrIdle /\ ReptIdle /\ SymIdle /\ EvIdle /\ LitIdle /\ OpIdle /\ ScopeIdle /\ CondIdle /\ LoadIdle /\ ModeIdle
JrRest == HexIdle /\ BinIdle /\ LabIdle /\ AsmIdle /\ ErrIdle /\ DetIdle /\ RefIdle /\ ReptIdle /\ SymIdle /\ EvIdle /\ LitIdle /\ OpIdle /\ ScopeIdle /\ CondIdle /\ LoadIdle /\ ModeIdle
ReptRest == HexIdle /\ BinIdle /\ LabIdle /\ AsmIdle /\ ErrIdle /\ DetIdle /\ RefIdle /\ JrIdle /\ SymIdle /\ EvIdle /\ LitIdle /\ OpIdle /\ ScopeIdle /\ CondIdle /\ LoadIdle /\ ModeIdle
SymRest == HexIdle /\ BinIdle /\ LabIdle /\ AsmIdle /\ ErrIdle /\ DetIdle /\ RefIdle /\ JrIdle /\ ReptIdle /\ EvIdle /\ LitIdle /\ OpIdle /\ ScopeIdle /\ CondIdle /\ LoadIdle /\ ModeIdle
EvRest == HexIdle /\ BinIdle /\ LabIdle /\ AsmIdle /\ ErrIdle /\ DetIdle /\ RefIdle /\ JrIdle /\ ReptIdle /\ SymIdle /\ LitIdle /\ OpIdle /\ ScopeIdle /\ CondIdle /\ LoadIdle /\ ModeIdle
LitRest == HexIdle /\ BinIdle /\ LabIdle /\ AsmIdle /\ ErrIdle /\ DetIdle /\ RefIdle /\ JrIdle /\ ReptIdle /\ SymIdle /\ EvIdle /\ OpIdle /\ ScopeIdle /\ CondIdle /\ LoadIdle /\ ModeIdle
OpRest == HexIdle /\ BinIdle /\ LabIdle /\ AsmIdle /\ ErrIdle /\ DetIdle /\ RefIdle /\ JrIdle /\ ReptIdle /\ SymIdle /\ EvIdle /\ LitIdle /\ ScopeIdle /\ CondIdle /\ LoadIdle /\ ModeIdle
ScopeRest == HexIdle /\ BinIdle /\ LabIdle /\ AsmIdle /\ ErrIdle /\ DetIdle /\ RefIdle /\ JrIdle /\ ReptIdle /\ SymIdle /\ EvIdle /\ LitIdle /\ OpIdle /\ CondIdle /\ LoadIdle /\ ModeIdle
CondRest == HexIdle /\ BinIdle /\ LabIdle /\ AsmIdle /\ ErrIdle /\ DetIdle /\ RefIdle /\ JrIdle /\ ReptIdle /\ SymIdle /\ EvIdle /\ LitIdle /\ OpIdle /\ ScopeIdle /\ LoadIdle /\ ModeIdle
LoadRest == HexIdle /\ BinIdle /\ LabIdle /\ AsmIdle /\ ErrIdle /\ DetIdle /\ RefIdle /\ JrIdle /\ ReptIdle /\ SymIdle /\ EvIdle /\ LitIdle /\ OpIdle /\ ScopeIdle /\ CondIdle /\ ModeIdle
ModeRest == HexIdle /\ BinIdle /\ LabIdle /\ AsmIdle /\ ErrIdle /\ DetIdle /\ RefIdle /\ JrIdle /\ ReptIdle /\ SymIdle /\ EvIdle /\ LitIdle /\ OpIdle /\ ScopeIdle /\ CondIdle /\ LoadIdle

(***************************************************************************)
(* Helpers shared by the subsystems.                                       *)
(***************************************************************************)

Min(a, b) == IF a < b THEN a ELSE b
Max(a, b) == IF a > b THEN a ELSE b

RECURSIVE SumSeq(_)
SumSeq(s) == IF s = <<>> THEN 0 ELSE Head(s) + SumSeq(Tail(s))

RECURSIVE Repeat(_, _)
Repeat(x, n) == IF n <= 0 THEN <<>> ELSE <<x>> \o Repeat(x, n - 1)

\* The digits of v >= 0 in the given base, most significant first ("" for 0).
RECURSIVE Digits(_, _)
Digits(v, base) ==
    IF v = 0 THEN <<>> ELSE Append(Digits(v \div base, base), v % base)

\* Python's '{:0<w>X}' / '{:0<w>b}' / '{:0<w>o}' / '{:d}': at least w digits,
\* zero padded, never truncated.
FormatInt(v, base, w) ==
    LET d == IF v = 0 THEN <<0>> ELSE Digits(v, base)
    IN  Repeat(0, w - Len(d)) \o d

\* The number a digit string denotes.
RECURSIVE DigitsValue(_, _)
DigitsValue(d, base) ==
    IF d = <<>> THEN 0
    ELSE DigitsValue(SubSeq(d, 1, Len(d) - 1), base) * base + d[Len(d)]

(***************************************************************************)
(* class HexOut: the Intel-HEX sink.                                       *)
(*                                                                         *)
(* hexout.f is the file as the sequence of records written; a record keeps *)
(* the numbers formatted and the text of its checksum field (hex digits).  *)
(* hexout.loads is a ghost: the load address at which the driver emitted   *)
(* each byte that is pending in hexout.data.                               *)
(***************************************************************************)

\* The sum Write accumulates before it forms the checksum.
HexSum(n, addr, data) == n + (addr \div 256) + (addr % 256) + SumSeq(data)

\* cs = 0x100 - ( cs & 0xFF ), as Write and Close compute it.
HexCheck(sum) == 256 - (sum % 256)

\* HexOut.Write
HexWrite(h) ==
    IF h.addr # NoAddr /\ h.data # <<>>
    THEN LET n  == Len(h.data)
             cs == HexCheck(HexSum(n, h.addr, h.data))
         IN  [h EXCEPT !.f = Append(@, [type  |-> 0,
                                        n     |-> n,
                                        addr  |-> h.addr,
                                        data  |-> h.data,
                                        cs    |-> FormatInt(cs, 16, 2),
                                        loads |-> h.loads]),
                       !.addr  = h.addr + n,
                       !.data  = <<>>,
                       !.loads = <<>>]
    ELSE h

\* HexOut.SetAddr
HexSetAddr(h, addr, bInit) ==
    IF h.addr = NoAddr
    THEN IF bInit THEN [h EXCEPT !.addr = addr] ELSE h
    ELSE LET w == IF h.addr + Len(h.data) # addr THEN HexWrite(h) ELSE h
         IN  [w EXCEPT !.addr = addr]

\* HexOut.Data; la is the load address of ba[1] (ghost).
RECURSIVE HexData(_, _, _)
HexData(h, ba, la) ==
    IF h.addr = NoAddr \/ ba = <<>> THEN h
    ELSE LET a == [h EXCEPT !.data = Append(@, Head(ba)),
                            !.loads = Append(@, la)]
             w == IF Len(a.data) >= 16 THEN HexWrite(a) ELSE a
         IN  HexData(w, Tail(ba), la + 1)

\* HexOut.Close (bKill = False)
HexClose(h, addr) ==
    LET w  == HexWrite(h)
        cs == HexCheck((addr \div 256) + (addr % 256) + 1)
    IN  [w EXCEPT !.f = Append(@, [type  |-> 1,
                                   n     |-> 0,
                                   addr  |-> addr,
                                   data  |-> <<>>,
                                   cs    |-> FormatInt(cs, 16, 2),
                                   loads |-> <<>>]),
                  !.closed = TRUE]

(***************************************************************************)
(* The driver feeding the HEX sink in pass 2: an origin directive calls    *)
(* SetLoad(address), every line with code calls SetLoad(lc, False) and     *)
(* Data(mc), and the end of the pass calls Close(begin).                   *)
(***************************************************************************)

\* Bounds of SpecHex.
MaxHexLines == 4

\* Load addresses of origin directives and END addresses.
HexAddrs == {0, 240, 254, 255, 256, 65280}

\* The byte buffers (self.mc) a line may leave.
HexLineCode == {<<0>>, <<255>>, <<1, 2>>, Repeat(0, 17)}

\* Bytes a line may reserve (self.nSpace).
HexSpace == {0, 1}

\* Assembler.SetLoad (phase 2, hexout open) on the HEX sink.
HexSetLoad(h, addr, bInit) == HexSetAddr(h, addr, bInit)

\* ORG and the like: SetLoad (address).
HexOrg(a) ==
    /\ ~hexout.closed
    /\ hexline < MaxHexLines
    /\ hexline' = hexline + 1
    /\ hexlc' = a
    /\ hexout' = HexSetLoad(hexout, a, TRUE)
    /\ HexFrame

\* AsmPass, a line in an enabled block that leaves code mc and reserve nSpace.
HexLine(mc, nSpace) ==
    /\ ~hexout.closed
    /\ hexline < MaxHexLines
    /\ hexline' = hexline + 1
    /\ hexout' = IF Len(mc) > 0
                 THEN HexData(HexSetLoad(hexout, hexlc, FALSE), mc, hexlc)
                 ELSE hexout
    /\ hexlc' = hexlc + Len(mc) + nSpace
    /\ HexFrame

\* Assemble, end of pass 2: hexout.Close (begin).
HexEnd(begin) ==
    /\ ~hexout.closed
    /\ hexout' = HexClose(hexout, begin)
    /\ UNCHANGED <<hexlc, hexline>>
    /\ HexFrame

NextHex ==
    \/ \E a \in HexAddrs : HexOrg(a)
    \/ \E mc \in HexLineCode \cup {<<>>}, s \in HexSpace : HexLine(mc, s)
    \/ \E b \in HexAddrs : HexEnd(b)

InitHex == HexIdle /\ HexRest

SpecHex == InitHex /\ [][NextHex]_vars

(***************************************************************************)
(* C3: every record the HEX sink writes carries a one-byte checksum field  *)
(* cs = (0x100 - (sum & 0xFF)) & 0xFF, two hex digits, so that the sum of  *)
(* the record's bytes and cs is 0 modulo 256.                              *)
(***************************************************************************)
RecSum(r) == HexSum(r.n, r.addr, r.data) + r.type

C3_ChecksumOneByte ==
    \A i \in 1..Len(hexout.f) :
        LET r == hexout.f[i]
        IN  /\ r.cs = FormatInt((256 - (RecSum(r) % 256)) % 256, 16, 2)
            /\ (RecSum(r) + DigitsValue(r.cs, 16)) % 256 = 0

(***************************************************************************)
(* C4: every type-00 record holds 1..16 data bytes and its address field   *)
(* is the load address at which its first data byte was emitted; while     *)
(* bytes are pending, contiguous lines leave the pending address alone.    *)
(***************************************************************************)
C4_RecordAddress ==
    /\ \A i \in 1..Len(hexout.f) :
          LET r == hexout.f[i]
          IN  r.type = 0 => /\ r.n \in 1..16
                            /\ r.n = Len(r.data)
                            /\ r.addr = r.loads[1]
    /\ hexout.data # <<>> => hexout.addr = hexout.loads[1]

(***************************************************************************)
(* class BinOut: the binary sink.                                          *)
(*                                                                         *)
(* binout.f is the content of the file and binout.pos the position of the  *)
(* file object; binout.data is the sink's own buffer, flushed by Write.    *)
(* binout.raised records that a call raised (f.seek of a negative offset   *)
(* is OSError: Invalid argument); nothing catches it, the run ends and the *)
(* file stays as it was written.                                           *)
(***************************************************************************)

\* The buffer length at which Data flushes.
BinBufLen == 256

\* file.write (bs) at position pos: overwrites, extends, and leaves a hole of
\* zero bytes when pos lies beyond the end.
FileWrite(f, pos, bs) ==
    LET padded == IF pos > Len(f) THEN f \o Repeat(0, pos - Len(f)) ELSE f
        n      == Len(bs)
        newlen == Max(Len(padded), pos + n)
    IN  [i \in 1..newlen |-> IF i > pos /\ i <= pos + n THEN bs[i - pos] ELSE padded[i]]

\* BinOut.Write
BinWrite(b) ==
    IF b.base # NoAddr /\ b.data # <<>>
    THEN [b EXCEPT !.f = FileWrite(b.f, b.pos, b.data),
                   !.pos = b.pos + Len(b.data),
                   !.data = <<>>]
    ELSE [b EXCEPT !.data = <<>>]

\* file.seek (off): a negative offset raises.
BinSeek(b, off) ==
    IF off < 0 THEN [b EXCEPT !.raised = TRUE] ELSE [b EXCEPT !.pos = off]

\* BinOut.SetAddr
BinSetAddr(b, addr, bInit) ==
    IF b.base = NoAddr
    THEN IF bInit THEN [b EXCEPT !.base = addr, !.addr = addr, !.maxaddr = addr] ELSE b
    ELSE IF addr > b.maxaddr
    THEN LET w == BinWrite(b)
             s == IF w.addr < w.maxaddr THEN BinSeek(w, w.maxaddr - w.base) ELSE w
             p == Repeat(s.fill, addr - s.maxaddr)
         IN  [s EXCEPT !.f = FileWrite(s.f, s.pos, p),
                       !.pos = s.pos + Len(p),
                       !.addr = addr,
                       !.maxaddr = addr]
    ELSE IF addr # b.addr
    THEN LET s == BinSeek(BinWrite(b), addr - b.base)
         IN  IF s.raised THEN s ELSE [s EXCEPT !.addr = addr]
    ELSE b

\* BinOut.Data
RECURSIVE BinAppend(_, _)
BinAppend(b, ba) ==
    IF ba = <<>> THEN b
    ELSE LET a == [b EXCEPT !.data = Append(@, Head(ba))]
             w == IF Len(a.data) >= BinBufLen THEN BinWrite(a) ELSE a
         IN  BinAppend(w, Tail(ba))

BinData(b, ba) ==
    IF b.base = NoAddr THEN b
    ELSE LET a == BinAppend(b, ba)
             n == a.addr + Len(ba)
         IN  [a EXCEPT !.addr = n, !.maxaddr = Max(a.maxaddr, n)]

\* BinOut.Close (bKill = False)
BinClose(b) == [BinWrite(b) EXCEPT !.closed = TRUE]

(***************************************************************************)
(* Calls on the binary sink.  binwant records what the caller wrote: the   *)
(* load address of a byte is the address of the last SetAddr plus the      *)
(* bytes written since (self.addr once the sink is initialised).           *)
(***************************************************************************)

\* Bounds of SpecBin.
MaxBinOps == 5
MaxBinAddr == 4

BinAddrs == 0..MaxBinAddr

BinCode == {<<1>>, <<2, 3>>}

BinLive == ~binout.closed /\ ~binout.raised /\ binops < MaxBinOps

\* The ghost after Data (ba) at load address la: a function address -> byte,
\* kept as a sequence of <<address, byte>> pairs, latest last.
Wrote(want, la, ba) ==
    want \o [i \in 1..Len(ba) |-> <<la + i - 1, ba[i]>>]

BinCallSetAddr(a) ==
    /\ BinLive
    /\ binout' = BinSetAddr(binout, a, TRUE)
    /\ binops' = binops + 1
    /\ UNCHANGED binwant
    /\ BinFrame

BinCallData(ba) ==
    /\ BinLive
    /\ binout' = BinData(binout, ba)
    /\ binwant' = IF binout.base = NoAddr THEN binwant
                  ELSE Wrote(binwant, binout.addr, ba)
    /\ binops' = binops + 1
    /\ BinFrame

BinCallClose ==
    /\ ~binout.closed /\ ~binout.raised
    /\ binout' = BinClose(binout)
    /\ UNCHANGED <<binwant, binops>>
    /\ BinFrame

NextBin ==
    \/ \E a \in BinAddrs : BinCallSetAddr(a)
    \/ \E ba \in BinCode : BinCallData(ba)
    \/ BinCallClose

InitBin == BinIdle /\ BinRest

SpecBin == InitBin /\ [][NextBin]_vars

\* The addresses written, the lowest of them, and the last byte written at one.
WantAddrs == {binwant[i][1] : i \in 1..Len(binwant)}
WantLowest == CHOOSE a \in WantAddrs : \A b \in WantAddrs : a <= b
WantLast(a) ==
    LET is == {i \in 1..Len(binwant) : binwant[i][1] = a}
        i  == CHOOSE j \in is : \A k \in is : k <= j
    IN  binwant[i][2]

\* The image holds, relative to origin, every byte written and fill elsewhere.
ImageFrom(origin) ==
    /\ Len(binout.f) = binout.maxaddr - origin
    /\ \A off \in 0..(Len(binout.f) - 1) :
          binout.f[off + 1] = IF origin + off \in WantAddrs
                              THEN WantLast(origin + off)
                              ELSE binout.fill

(***************************************************************************)
(* C2: after any sequence of SetAddr and Data calls followed by Close the  *)
(* image holds at offset a - base the last byte written at load address a, *)
(* base being the lowest address written, and the fill byte at every       *)
(* offset below the high-water mark that was never written.                *)
(***************************************************************************)
C2_ImageFromLowest ==
    /\ ~binout.raised
    /\ (binout.closed /\ WantAddrs # {}) => ImageFrom(WantLowest)

\* What the code does keep: relative to the first address set, as long as no
\* call seeks below it.
BinImageFromBase ==
    (binout.closed /\ binout.base # NoAddr) => ImageFrom(binout.base)

(***************************************************************************)
(* The symbol table: Assembler.Public and Assembler.Label, called by Parse *)
(* for the label of a line, and the two passes of Assemble over the source *)
(* files.  Pass 2 reads the lines pass 1 read.                             *)
(***************************************************************************)

\* An AsmErr that records every error: what C6 rules out.
AsmErrLast(cur, msg) == msg

\* Assembler.AsmErr: only the first error of a line is kept.
AsmErr(cur, msg) == IF cur = "none" THEN msg ELSE cur

\* Label (name, seg, value, location)
NewLabel(value, file) == [present |-> TRUE, value |-> value, file |-> file]

\* Assembler.Public: the tables after PUBLIC name.
Public(pub, name, file) ==
    IF pub[name].present THEN pub ELSE [pub EXCEPT ![name] = NewLabel(NoAddr, file)]

\* Which table Label settles on: the scope (bPublic after the lookup) and the
\* Label found there, Absent when the code's label is None.
LabelLookup(pub, labs, name, bPublic, file) ==
    IF pub[name].present
    THEN IF bPublic \/ pub[name].file = file
         THEN [pub |-> TRUE, label |-> pub[name]]
         ELSE [pub |-> FALSE, label |-> Absent]
    ELSE IF ~bPublic
         THEN [pub |-> FALSE, label |-> labs[name]]
         ELSE [pub |-> TRUE, label |-> Absent]

\* Assembler.Label: publics, the current file's locals and sErr after the call.
Label(pub, labs, sErr, name, bPublic, value, file, phase, bStrict) ==
    LET look == LabelLookup(pub, labs, name, bPublic, file)
        old  == look.label
        keep == [publics |-> pub, labels |-> labs, sErr |-> sErr]
        put(l) == IF look.pub
                  THEN [keep EXCEPT !.publics = [pub EXCEPT ![name] = l]]
                  ELSE [keep EXCEPT !.labels = [labs EXCEPT ![name] = l]]
    IN  IF ~old.present
        THEN put(NewLabel(value, file))
        ELSE IF phase = 1
        THEN IF old.value = NoAddr
             THEN put(NewLabel(value, file))
             ELSE IF bStrict \/ old.value # value
                  THEN [keep EXCEPT !.sErr = AsmErr(sErr, "dup")]
                  ELSE keep
        ELSE IF old.value = NoAddr
             THEN [keep EXCEPT !.sErr = AsmErr(sErr, "notset")]
             ELSE IF old.value # value
                  THEN [keep EXCEPT !.sErr = AsmErr(sErr, "phase")]
                  ELSE keep

\* The Label a definition of name in this file is about: the public one when
\* the definition is public or the public belongs to this file, otherwise
\* the file's local one.
LabelNamed(pub, labs, name, bPublic, file) ==
    IF bPublic \/ (pub[name].present /\ pub[name].file = file)
    THEN pub[name] ELSE labs[name]

\* Bounds of SpecLabel.
MaxLabLines == 2
MaxLabValue == 1

LabValues == 0..MaxLabValue

\* The lines of a source file that touch the symbol table:
\*   name:  / name::   a label at the current PC (Label (name, bPublic))
\*   name EQU value    an equate (Label (name, False, value))
\*   PUBLIC name
LabLines ==
    [op : {"label"}, name : Names, pub : BOOLEAN, val : {0}]
      \cup [op : {"equ"}, name : Names, pub : {FALSE}, val : LabValues]
      \cup [op : {"public"}, name : Names, pub : {TRUE}, val : {0}]

\* Parse of one line, then AsmPass counting its error.  pc is the program
\* counter at the line: conditional assembly may make it differ between passes.
LabParse(line, pc) ==
    LET f == lab.file
        r == IF line.op = "public"
             THEN [publics |-> Public(publics, line.name, f),
                   labels |-> locals[f], sErr |-> "none"]
             ELSE Label(publics, locals[f], "none", line.name, line.pub,
                        IF line.op = "equ" THEN line.val ELSE pc,
                        f, lab.phase, lab.bStrict)
    IN  /\ publics' = r.publics
        /\ locals' = [locals EXCEPT ![f] = r.labels]
        /\ lab' = [lab EXCEPT !.sErr = r.sErr,
                              !.pos = lab.pos + 1,
                              !.nErr = IF r.sErr # "none" THEN lab.nErr + 1 ELSE lab.nErr]
        /\ lablast' = IF line.op # "public"
                      THEN [def |-> TRUE, name |-> line.name, file |-> f,
                            phase |-> lab.phase, bPublic |-> line.pub,
                            pub |-> LabelLookup(publics, locals[f], line.name,
                                                line.pub, f).pub,
                            value |-> IF line.op = "equ" THEN line.val ELSE pc,
                            old |-> LabelNamed(publics, locals[f], line.name,
                                               line.pub, f)]
                      ELSE [def |-> FALSE]

\* Assemble: the options (strict mode), then the first source of pass 1.
LabStart(strict) ==
    /\ lab.file = 0 /\ lab.phase = 1 /\ lab.exit = NoAddr
    /\ lab' = [lab EXCEPT !.file = 1, !.bStrict = strict]
    /\ UNCHANGED <<publics, locals, labsrc, labp1, lablast>>
    /\ LabFrame

\* AsmPass in pass 1: one more line of the current source.
LabLine1(line, pc) ==
    /\ lab.phase = 1 /\ lab.file \in Files /\ lab.exit = NoAddr
    /\ lab.pos < MaxLabLines
    /\ labsrc' = [labsrc EXCEPT ![lab.file] = Append(@, line)]
    /\ LabParse(line, pc)
    /\ UNCHANGED labp1
    /\ LabFrame

\* AsmPass in pass 2: the next line of the current source.
LabLine2(pc) ==
    /\ lab.phase = 2 /\ lab.file \in Files /\ lab.exit = NoAddr
    /\ lab.pos < Len(labsrc[lab.file])
    /\ LabParse(labsrc[lab.file][lab.pos + 1], pc)
    /\ UNCHANGED <<labsrc, labp1>>
    /\ LabFrame

\* Assemble: the end of a source file; the next source, or the end of the pass.
\* Pass 2 starts only when pass 1 counted no error.
LabEndFile ==
    /\ lab.file \in Files /\ lab.exit = NoAddr
    /\ lab.phase = 2 => lab.pos = Len(labsrc[lab.file])
    /\ IF lab.file < NFiles
       THEN /\ lab' = [lab EXCEPT !.file = lab.file + 1, !.pos = 0]
            /\ UNCHANGED labp1
       ELSE IF lab.phase = 1 /\ lab.nErr = 0
       THEN /\ lab' = [lab EXCEPT !.phase = 2, !.file = 1, !.pos = 0]
            /\ labp1' = [publics |-> publics, locals |-> locals]
       ELSE /\ lab' = [lab EXCEPT !.exit = IF lab.nErr > 0 THEN 1 ELSE 0]
            /\ UNCHANGED labp1
    /\ lablast' = [def |-> FALSE]
    /\ UNCHANGED <<publics, locals, labsrc>>
    /\ LabFrame

NextLabel ==
    \/ \E b \in BOOLEAN : LabStart(b)
    \/ \E l \in LabLines, pc \in LabValues : LabLine1(l, pc)
    \/ \E pc \in LabValues : LabLine2(pc)
    \/ LabEndFile

InitLabel == LabIdle /\ LabRest

SpecLabel == InitLabel /\ [][NextLabel]_vars

\* A Label that holds a value.
HasValue(l) == l.present /\ l.value # NoAddr

(***************************************************************************)
(* C1: in pass 2 the value presented at a label's definition equals the    *)
(* value pass 1 stored for that label, or the phase error is recorded on   *)
(* the defining line; and no value stored in pass 1 is replaced in pass 2  *)
(* without an error being counted.                                         *)
(***************************************************************************)
C1_PhaseChecked ==
    lab.phase = 2 =>
      /\ lablast.def =>
           LET old == IF lablast.pub THEN labp1.publics[lablast.name]
                      ELSE labp1.locals[lablast.file][lablast.name]
           IN  HasValue(old) => \/ lablast.value = old.value
                                \/ lab.sErr = "phase"
      /\ lab.nErr = 0 =>
           /\ \A n \in Names :
                HasValue(labp1.publics[n]) => publics[n].value = labp1.publics[n].value
           /\ \A f \in Files, n \in Names :
                HasValue(labp1.locals[f][n]) =>
                    locals[f][n].value = labp1.locals[f][n].value

(***************************************************************************)
(* The two passes of Assemble over one source file: AsmPass reading lines, *)
(* Parse of the lines that decide whether the run succeeds, the sinks      *)
(* opened before pass 2 and closed (or removed) after it, and the exits.   *)
(***************************************************************************)

\* Bound of Spec: the number of lines of the source file.
MaxSrcLines == 5

\* The lines of the source:
\*   NOP              one byte of code, never an error
\*   JR far           a relative jump whose target is out of range
\*   BAD              not an opcode
\*   IFDEF foo, ENDIF conditional assembly
\*   foo:             a label
\*   INCLUDE x, INSERT x   with x not found
SrcLines == [op : {"NOP", "JR", "BAD", "ENDIF", "INCLUDE", "INSERT"}, name : {""}]
              \cup [op : {"IFDEF", "LABEL"}, name : {"foo"}]

Last(s) == s[Len(s)]
Front(s) == SubSeq(s, 1, Len(s) - 1)

\* No public labels: the source declares none.
NoPublics == [n \in Names |-> Absent]

\* Parse of one line: the assembler after it, with nCode the length of mc and
\* action what Parse returns; fatal when Insert did not find its file.
Parse(a, line) ==
    LET a0 == [a EXCEPT !.sErr = "none"]
        on == Last(a.enable)
        r(b, n, act, fatal) == [asm |-> b, nCode |-> n, action |-> act, fatal |-> fatal]
    IN  CASE line.op = "LABEL" ->
               IF on
               THEN LET l == Label(NoPublics, a.labels, "none", line.name, FALSE,
                                   a.pc, 1, a.phase, TRUE)
                    IN  r([a0 EXCEPT !.labels = l.labels, !.sErr = l.sErr], 0, "", FALSE)
               ELSE r(a0, 0, "", FALSE)
          [] line.op = "INCLUDE" -> r(a0, 0, IF on THEN "I" ELSE "", FALSE)
          [] line.op = "INSERT" ->
               IF on THEN r([a0 EXCEPT !.sErr = "insert"], 0, "", TRUE)
               ELSE r(a0, 0, "", FALSE)
          [] line.op = "IFDEF" ->
               r([a0 EXCEPT !.enable = Append(@, on /\ a.labels[line.name].present)],
                 0, "", FALSE)
          [] line.op = "ENDIF" ->
               IF Len(a.enable) < 2
               THEN r([a0 EXCEPT !.sErr = AsmErr("none", "endif")], 0, "", FALSE)
               ELSE r([a0 EXCEPT !.enable = Front(@)], 0, "", FALSE)
          [] line.op = "NOP" -> r(a0, 1, "", FALSE)
          [] line.op = "JR" ->
               r([a0 EXCEPT !.sErr = IF a.phase = 2 /\ on
                                     THEN AsmErr("none", "range") ELSE "none"],
                 2, "", FALSE)
          [] OTHER -> r([a0 EXCEPT !.sErr = AsmErr("none", "opcode")], 0, "", FALSE)

\* The body of AsmPass's loop for one line: Parse, the error count, the
\* counters, then Include.  sys.exit (1) in Insert or Include ends the run at
\* once: nothing is closed and nothing is removed.
AsmStep(a, line) ==
    LET p == Parse(a, line)
        b == p.asm
        c == [b EXCEPT !.pos = a.pos + 1,
                       !.nErr = IF b.sErr # "none" THEN b.nErr + 1 ELSE b.nErr,
                       !.pc = IF Last(b.enable) THEN b.pc + p.nCode ELSE b.pc]
    IN  IF p.fatal THEN [b EXCEPT !.pos = a.pos + 1, !.exit = 1]
        ELSE IF p.action = "I"
        THEN [c EXCEPT !.sErr = AsmErr(c.sErr, "include"), !.exit = 1]
        ELSE c

\* The end of AsmPass: Mismatched IF/ENDIF counts as an error.
AsmEndFile(a) ==
    IF Len(a.enable) # 1 THEN [a EXCEPT !.nErr = a.nErr + 1] ELSE a

\* Pass 1 reads one more line.
AsmLine1(line) ==
    /\ asm.phase = 1 /\ asm.exit = NoAddr
    /\ Len(src) < MaxSrcLines
    /\ src' = Append(src, line)
    /\ asm' = AsmStep(asm, line)
    /\ UNCHANGED <<args, disk>>
    /\ AsmFrame

\* Pass 2 reads the next line.
AsmLine2 ==
    /\ asm.phase = 2 /\ asm.exit = NoAddr
    /\ asm.pos < Len(src)
    /\ asm' = AsmStep(asm, src[asm.pos + 1])
    /\ UNCHANGED <<src, args, disk>>
    /\ AsmFrame

\* The end of pass 1: exit 1 on errors, else phase 2 with the requested sinks
\* opened (BinOut, HexOut and Reformat.Open create their files).
AsmEndPass1(req) ==
    /\ asm.phase = 1 /\ asm.exit = NoAddr
    /\ LET a == AsmEndFile(asm)
       IN  IF a.nErr > 0
           THEN /\ asm' = [a EXCEPT !.exit = 1]
                /\ UNCHANGED <<args, disk>>
           ELSE /\ asm' = [a EXCEPT !.phase = 2, !.pos = 0, !.pc = 0]
                /\ args' = req
                /\ disk' = disk \cup (req \ {"sym"})
    /\ UNCHANGED src
    /\ AsmFrame

\* The end of pass 2: the sinks are closed, and removed when nErr > 0; the
\* symbol file is written only when nErr = 0; exit 1 when nErr > 0.
AsmEndPass2 ==
    /\ asm.phase = 2 /\ asm.exit = NoAddr
    /\ asm.pos = Len(src)
    /\ LET a == AsmEndFile(asm)
       IN  /\ asm' = [a EXCEPT !.exit = IF a.nErr > 0 THEN 1 ELSE 0]
           /\ disk' = IF a.nErr > 0 THEN disk \ (args \ {"sym"})
                      ELSE disk \cup (args \cap {"sym"})
    /\ UNCHANGED <<src, args>>
    /\ AsmFrame

Next ==
    \/ \E l \in SrcLines : AsmLine1(l)
    \/ AsmLine2
    \/ \E req \in SUBSET Artifacts : AsmEndPass1(req)
    \/ AsmEndPass2

Init == AsmIdle /\ AsmRest

Spec == Init /\ [][Next]_vars

(***************************************************************************)
(* C5: when the run has ended with nErr > 0, the exit status is 1 and no   *)
(* binary, hex, symbol or reformatted output is on disk, on every exit     *)
(* path, the include-not-found and insert-not-found exits included.        *)
(***************************************************************************)
C5_NoArtifactsOnError ==
    (asm.exit # NoAddr /\ asm.nErr > 0) => (asm.exit = 1 /\ disk = {})

(***************************************************************************)
(* The error of a line: Parse clears sErr, the handlers of the line call   *)
(* AsmErr any number of times, and AsmPass counts the line once.           *)
(***************************************************************************)

\* Bounds of SpecErr: lines read, and AsmErr calls made for one line.
MaxErrLines == 3
MaxErrCalls == 3

\* The messages a line can raise (ExprParse, EvalArith8, Label, Parse ...).
ErrMsgs == {"syntax", "range", "dup"}

\* AsmPass reads a line and Parse starts: sErr = None.
ErrParse ==
    /\ errst.at = "read" /\ errst.line < MaxErrLines
    /\ errst' = [errst EXCEPT !.at = "parse", !.sErr = "none", !.line = @ + 1]
    /\ errcalls' = <<>>
    /\ errbase' = errst.nErr
    /\ ErrFrame

\* A handler of the line calls AsmErr (msg).
ErrCall(msg) ==
    /\ errst.at = "parse" /\ Len(errcalls) < MaxErrCalls
    /\ errst' = [errst EXCEPT !.sErr = AsmErr(errst.sErr, msg)]
    /\ errcalls' = Append(errcalls, msg)
    /\ UNCHANGED errbase
    /\ ErrFrame

\* Parse returns: AsmPass counts the line when sErr is not None.
ErrCount ==
    /\ errst.at = "parse"
    /\ errst' = [errst EXCEPT !.at = "read",
                              !.nErr = IF errst.sErr # "none" THEN @ + 1 ELSE @]
    /\ UNCHANGED <<errcalls, errbase>>
    /\ ErrFrame

NextErr ==
    \/ ErrParse
    \/ \E m \in ErrMsgs : ErrCall(m)
    \/ ErrCount

InitErr == ErrIdle /\ ErrRest

SpecErr == InitErr /\ [][NextErr]_vars

(***************************************************************************)
(* C6: while a line is parsed and after it, sErr is the message of the     *)
(* first AsmErr call made for the line (None when there was no call, so it *)
(* is cleared at the start of each line), later calls leave it unchanged,  *)
(* and the line adds at most 1 to nErr.                                    *)
(***************************************************************************)
C6_FirstErrorOnly ==
    /\ errst.sErr = (IF errcalls = <<>> THEN "none" ELSE errcalls[1])
    /\ errst.at = "parse" => errst.nErr = errbase
    /\ errst.at = "read" =>
           errst.nErr = errbase + (IF errcalls = <<>> THEN 0 ELSE 1)
    /\ errst.nErr <= errst.line

\* A counted line on which a second, different AsmErr call was made.
C6_Witness ==
    /\ errst.at = "read" /\ errst.line >= 2
    /\ Len(errcalls) >= 2 /\ errcalls[2] # errcalls[1]
    /\ errst.sErr = errcalls[1]
    /\ errst.nErr = errbase + 1 /\ errbase >= 1

(***************************************************************************)
(* Two runs of the assembler on the same source, one after the other: the  *)
(* second run reads another clock and the build file the first one left.   *)
(* What is compared is the bytes each run delivers to its output sinks.    *)
(***************************************************************************)

\* Bound of SpecDet: the number of lines of the source file.
MaxDetLines == 5

\* The lines of the source: ORG, DB 0AAH, DATE, TIME, BUILD, IF 0, ENDIF.
DetLines == {"ORG", "DB", "DATE", "TIME", "BUILD", "IF0", "ENDIF"}

\* The latin_1 bytes of a decimal number of at least w digits.
DecChars(v, w) == LET d == FormatInt(v, 10, w) IN [i \in 1..Len(d) |-> 48 + d[i]]

\* time.strftime ('%d %b %Y') and time.strftime ('%H:%M') in November 2026.
StrfDate(clock) == DecChars(clock.day, 2) \o <<32, 78, 111, 118, 32>> \o DecChars(2026, 4)
StrfTime(clock) == DecChars(clock.hour, 2) \o <<58>> \o DecChars(clock.min, 2)

\* '{:d}'.format (build).ljust (5)
BuildText(build) ==
    LET d == DecChars(build, 1) IN d \o Repeat(32, Max(0, 5 - Len(d)))

\* GetBuild: the number in the build file plus one.
GetBuild(buildfile) == buildfile + 1

\* A delivery that ignores the enable stack.
DetDeliversDisabled(enabled, loaded) == loaded

\* AsmPass delivers the code of a line when the block is enabled; the sinks
\* take it once an ORG has set the load address.
DetDelivers(enabled, loaded) == enabled /\ loaded

\* Parse and AsmPass for one line in pass 2 of a run.
DetStep(d, line, clock, buildfile) ==
    LET on == Last(d.enable)
        build == IF line = "BUILD" /\ d.build = NoAddr THEN GetBuild(buildfile)
                 ELSE d.build
        mc == CASE line = "DB" -> <<170>>
                [] line = "DATE" -> StrfDate(clock)
                [] line = "TIME" -> StrfTime(clock)
                [] line = "BUILD" -> BuildText(build)
                [] OTHER -> <<>>
        st == [d EXCEPT !.pos = d.pos + 1, !.build = build,
                        !.loaded = d.loaded \/ (line = "ORG" /\ on),
                        !.enable = CASE line = "IF0" -> Append(d.enable, FALSE)
                                     [] line = "ENDIF" -> Front(d.enable)
                                     [] OTHER -> d.enable]
    IN  [det |-> st,
         out |-> IF DetDelivers(Last(st.enable), st.loaded) THEN mc ELSE <<>>]

\* The source is valid: IF and ENDIF are paired.
DetValid(enable, line) ==
    /\ line = "IF0" => Len(enable) = 1
    /\ line = "ENDIF" => Len(enable) = 2

\* The first run reads one more line.
DetLine1(line) ==
    /\ det.run = 1 /\ Len(detsrc) < MaxDetLines
    /\ DetValid(det.enable, line)
    /\ LET r == DetStep(det, line, detenv.clock[1], detenv.buildfile)
       IN  /\ det' = r.det
           /\ detout' = [detout EXCEPT ![1] = @ \o r.out]
    /\ detsrc' = Append(detsrc, line)
    /\ UNCHANGED detenv
    /\ DetFrame

\* The first run ends without error: SaveBuild stores the build number, and
\* the second run starts.
DetEnd1 ==
    /\ det.run = 1 /\ Len(det.enable) = 1
    /\ detenv' = [detenv EXCEPT !.buildfile = IF det.build # NoAddr THEN det.build ELSE @]
    /\ det' = [run |-> 2, pos |-> 0, enable |-> <<TRUE>>, loaded |-> FALSE,
               build |-> NoAddr, done |-> FALSE]
    /\ UNCHANGED <<detsrc, detout>>
    /\ DetFrame

\* The second run reads its next line.
DetLine2 ==
    /\ det.run = 2 /\ det.pos < Len(detsrc)
    /\ LET r == DetStep(det, detsrc[det.pos + 1], detenv.clock[2], detenv.buildfile)
       IN  /\ det' = r.det
           /\ detout' = [detout EXCEPT ![2] = @ \o r.out]
    /\ UNCHANGED <<detsrc, detenv>>
    /\ DetFrame

\* The second run ends.
DetEnd2 ==
    /\ det.run = 2 /\ det.pos = Len(detsrc) /\ ~det.done
    /\ det' = [det EXCEPT !.done = TRUE]
    /\ UNCHANGED <<detsrc, detenv, detout>>
    /\ DetFrame

NextDet ==
    \/ \E l \in DetLines : DetLine1(l)
    \/ DetEnd1
    \/ DetLine2
    \/ DetEnd2

\* The two runs may see different clocks, and any build file.
InitDet ==
    /\ det = [run |-> 1, pos |-> 0, enable |-> <<TRUE>>, loaded |-> FALSE,
              build |-> NoAddr, done |-> FALSE]
    /\ detsrc = <<>>
    /\ detenv \in [clock : [1..2 -> Clocks], buildfile : BuildFiles]
    /\ detenv.clock[1].day = 6
    /\ detout = <<<< >>, << >>>>
    /\ DetRest

SpecDet == InitDet /\ [][NextDet]_vars

\* The enable stack before line i of the source, and whether some DATE, TIME
\* or BUILD line stands in an enabled block.
RECURSIVE EnableAt(_, _)
EnableAt(source, i) ==
    IF i = 1 THEN <<TRUE>>
    ELSE LET e == EnableAt(source, i - 1)
         IN  CASE source[i - 1] = "IF0" -> Append(e, FALSE)
               [] source[i - 1] = "ENDIF" -> Front(e)
               [] OTHER -> e

Stamped(source) ==
    \E i \in 1..Len(source) :
        /\ source[i] \in {"DATE", "TIME", "BUILD"}
        /\ Last(EnableAt(source, i))

HexChars == <<"0", "1", "2", "3", "4", "5", "6", "7", "8", "9",
              "A", "B", "C", "D", "E", "F">>

IsHexChar(c) == \E i \in 1..16 : HexChars[i] = c
CharValue(c) == (CHOOSE i \in 1..16 : HexChars[i] = c) - 1

\* '{:0<w>X}', '{:0<w>b}', '{:0<w>o}', '{:d}' as text.
FormatText(v, base, w) ==
    LET d == FormatInt(v, base, w) IN [i \in 1..Len(d) |-> HexChars[d[i] + 1]]

\* int (sValue, base): the value, or NoAddr for ValueError.
PyInt(sValue, base) ==
    IF sValue = <<>> \/ \E i \in 1..Len(sValue) : CharValue(sValue[i]) >= base
    THEN NoAddr
    ELSE DigitsValue([i \in 1..Len(sValue) |-> CharValue(sValue[i])], base)

\* Reformat.Expression for one numeric term.
Expression(styOut, term, arg) ==
    LET small == arg >= 0 /\ arg < 256
        hexMA == <<"&">> \o FormatText(arg, 16, IF small THEN 2 ELSE 4)
        hexZ  == <<"#">> \o FormatText(arg, 16, IF small THEN 2 ELSE 4)
    IN  CASE term = "B" ->
               (CASE styOut = "MA" -> <<"%">> \o FormatText(arg, 2, IF small THEN 8 ELSE 16)
                  [] styOut = "M80" -> IF small THEN FormatText(arg, 2, 8) \o <<"B">>
                                       ELSE FormatText(arg, 2, 1) \o <<"0", "1", "6", "B">>
                  [] OTHER -> hexZ)
          [] term = "D" -> FormatText(arg, 10, 1)
          [] term = "H" ->
               (CASE styOut = "MA" -> hexMA
                  [] styOut = "M80" ->
                       IF small
                       THEN FormatText(arg, 16, IF arg < 160 THEN 2 ELSE 3) \o <<"H">>
                       ELSE FormatText(arg, 16, IF arg < 40960 THEN 4 ELSE 5) \o <<"H">>
                  [] OTHER -> hexZ)
          [] OTHER ->
               (CASE styOut = "MA" -> hexMA
                  [] styOut = "M80" -> FormatText(arg, 8, IF small THEN 3 ELSE 6) \o <<"Q">>
                  [] OTHER -> hexZ)
\* A term of ExprParse, or the error of a ValueError; what follows a term must
\* be an operator, so text left after it is an error too.
Term(kind, value, s, next) ==
    IF value = NoAddr \/ next <= Len(s) THEN NoParse
    ELSE [ok |-> TRUE, prefix |-> 0, kind |-> kind, value |-> value]

\* sValue[0:-1]
ButLast(sValue) == SubSeq(sValue, 1, Len(sValue) - 1)

\* The letters a literal or a label is written with here.
IsLetter(c) == c \in {"A", "B", "C", "D", "E", "F", "H", "O", "Q", "X"}

\* ExprParse in state exHex at a character that is no hex digit, or at the
\* end of the text: the term, and the closing quote or (when not strict) the
\* H taken with it.
HexTerm(style, s, iCh, sValue, chQuote) ==
    LET ch == IF iCh <= Len(s) THEN s[iCh] ELSE ""
        next == IF ch # "" /\ (ch = chQuote \/ (style \in {"MA"} /\ ch = "H"))
                THEN iCh + 1 ELSE iCh
    IN  IF sValue = <<>> /\ style = "PASMO"
        THEN Term("L", 0, s, next)
        ELSE Term("H", PyInt(sValue, 16), s, next)

\* ExprParse over the text of one literal or label in the given dialect: the
\* states exValue, exBinary, exHex, exNumber and exLabel, and the end of the
\* text. chQuote is "" for Python's None.
RECURSIVE ExprParse(_, _, _, _, _, _)
ExprParse(style, s, iCh, state, sValue, chQuote) ==
    IF iCh > Len(s)
    THEN CASE state = "exBinary" -> Term("B", PyInt(sValue, 2), s, iCh)
           [] state = "exHex" -> HexTerm(style, s, iCh, sValue, "")
           [] state = "exNumber" ->
                (CASE Last(sValue) = "B" -> Term("B", PyInt(ButLast(sValue), 2), s, iCh)
                   [] Last(sValue) = "D" -> Term("D", PyInt(ButLast(sValue), 10), s, iCh)
                   [] OTHER -> Term("D", PyInt(sValue, 10), s, iCh))
           [] state = "exLabel" -> Term("L", 0, s, iCh)
           [] OTHER -> NoParse
    ELSE LET ch == s[iCh]
         IN  CASE state = "exValue" ->
                    (CASE ch = "#" -> ExprParse(style, s, iCh + 1, "exHex", <<>>, chQuote)
                       [] ch = "&" /\ style \in {"MA", "PASMO"} ->
                            ExprParse(style, s, iCh + 1, "exHex", <<>>, chQuote)
                       [] ch = "$" /\ style = "PASMO" ->
                            ExprParse(style, s, iCh + 1, "exHex", <<>>, chQuote)
                       [] ch = "%" /\ style \in {"MA", "PASMO"} ->
                            ExprParse(style, s, iCh + 1, "exBinary", <<>>, chQuote)
                       [] IsHexChar(ch) /\ CharValue(ch) < 10 ->
                            ExprParse(style, s, iCh + 1, "exNumber", <<ch>>, chQuote)
                       [] ch = "X" /\ iCh < Len(s) /\ s[iCh + 1] = "'" ->
                            ExprParse(style, s, iCh + 2 + 1, "exHex", <<>>, "'")
                       [] IsLetter(ch) ->
                            ExprParse(style, s, iCh + 1, "exLabel", <<ch>>, chQuote)
                       [] OTHER -> NoParse)
               [] state = "exBinary" ->
                    IF ch \in {"0", "1"}
                    THEN ExprParse(style, s, iCh + 1, state, Append(sValue, ch), chQuote)
                    ELSE Term("B", PyInt(sValue, 2), s, iCh)
               [] state = "exHex" ->
                    IF IsHexChar(ch)
                    THEN ExprParse(style, s, iCh + 1, state, Append(sValue, ch), chQuote)
                    ELSE HexTerm(style, s, iCh, sValue, chQuote)
               [] state = "exLabel" ->
                    IF IsHexChar(ch) \/ IsLetter(ch)
                    THEN ExprParse(style, s, iCh + 1, state, Append(sValue, ch), chQuote)
                    ELSE Term("L", 0, s, iCh)
               [] OTHER ->
                    (CASE IsHexChar(ch) ->
                            ExprParse(style, s, iCh + 1, state, Append(sValue, ch), chQuote)
                       [] ch = "X" /\ sValue = <<"0">> ->
                            ExprParse(style, s, iCh + 1, "exHex", <<>>, chQuote)
                       [] ch \in {"O", "Q"} -> Term("Q", PyInt(sValue, 8), s, iCh + 1)
                       [] ch = "H" -> Term("H", PyInt(sValue, 16), s, iCh + 1)
                       [] Last(sValue) = "B" -> Term("B", PyInt(ButLast(sValue), 2), s, iCh)
                       [] Last(sValue) = "D" -> Term("D", PyInt(ButLast(sValue), 10), s, iCh)
                       [] OTHER -> Term("D", PyInt(sValue, 10), s, iCh))

\* The prefix bytes of the index registers.
PrefixIX == 221
PrefixIY == 253

StartsWith(s, t) == Len(s) >= Len(t) /\ SubSeq(s, 1, Len(t)) = t

\* Assembler.IndexAddr: whether sArg is an indexed address, the argument
\* recorded for the reformatter and the prefix byte emitted.
IndexAddr(sArg) ==
    IF sArg = <<>> \/ Last(sArg) # ")"
    THEN [index |-> FALSE, arg |-> <<>>, prefix |-> 0]
    ELSE IF StartsWith(sArg, <<"(", "I", "X", "+">>)
    THEN [index |-> TRUE, arg |-> <<"(", "I", "X">>, prefix |-> PrefixIX]
    ELSE IF StartsWith(sArg, <<"(", "I", "Y", "+">>)
    THEN [index |-> TRUE, arg |-> <<"(", "I", "X">>, prefix |-> PrefixIY]
    ELSE [index |-> FALSE, arg |-> <<>>, prefix |-> 0]

\* The text of an indexed operand of the source.
IndexText(reg) == <<"(">> \o (IF reg = "IX" THEN <<"I", "X">> ELSE <<"I", "Y">>)
                    \o <<"+", "d", ")">>

\* The line is encoded: IndexAddr records the index argument and emits the
\* prefix; the expression is recorded as its term list.
RefEncode ==
    /\ ref.at = "source"
    /\ LET ix == IndexAddr(IndexText(ref.operand.reg))
       IN  ref' = [ref EXCEPT !.at = "encoded",
                              !.prefix = IF ref.operand.form = "idx" THEN ix.prefix ELSE 0,
                              !.args = IF ref.operand.form = "idx" THEN ix.arg ELSE <<>>]
    /\ RefFrame

\* Reformat.Output: the recorded argument, then the expression (behind its
\* unary plus, and closed by a bracket, for an indexed address).
RefOutput ==
    /\ ref.at = "encoded"
    /\ LET e == Expression(ref.styOut, ref.operand.kind, ref.operand.value)
       IN  ref' = [ref EXCEPT !.at = "written",
                              !.text = IF ref.operand.form = "idx"
                                       THEN ref.args \o <<"+">> \o e \o <<")">>
                                       ELSE e]
    /\ RefFrame

\* The output is assembled in its dialect: IndexAddr on the operand, the
\* displacement between the sign and the bracket (EvalIdxAddr), ExprParse.
RefReparse ==
    /\ ref.at = "written"
    /\ LET ix == IndexAddr(ref.text)
           e == IF ix.index THEN SubSeq(ref.text, 5, Len(ref.text) - 1) ELSE ref.text
           t == ExprParse(ref.styOut, e, 1, "exValue", <<>>, "")
       IN  ref' = [ref EXCEPT !.at = "reparsed",
                              !.back = [t EXCEPT !.prefix = ix.prefix]]
    /\ RefFrame

NextRef == RefEncode \/ RefOutput \/ RefReparse

\* An operand of the source, parsed (the term list of ExprParse), and the
\* dialect to write it in.
InitRef ==
    /\ ref \in [at : {"source"}, styOut : Styles, operand : Operands,
                prefix : {0}, args : {<<>>}, text : {<<>>}, back : {NoParse}]
    /\ RefRest

SpecRef == InitRef /\ [][NextRef]_vars

(***************************************************************************)
(* C8: what the reformatter writes for an operand parses again, in the     *)
(* output dialect, to the same index register (the same prefix byte) and   *)
(* the same value, for every literal kind and every value in 0..0xFFFF.    *)
(***************************************************************************)
C8_RoundTrip ==
    ref.at = "reparsed" =>
        /\ ref.back.ok
        /\ ref.back.prefix = ref.prefix
        /\ ref.back.value = ref.operand.value

\* The round trip of the numeric literals alone, without the binary literals
\* of 9 bits and more written for M80.
RefLiteralsBack ==
    (/\ ref.at = "reparsed"
     /\ ~(ref.styOut = "M80" /\ ref.operand.kind = "B" /\ ref.operand.value >= 256))
        => ref.back.ok /\ ref.back.value = ref.operand.value

(***************************************************************************)
(* Relative jumps: Parse of a JR (with or without condition) or DJNZ line  *)
(* in the absolute segment (base 0), and AsmPass counting its error.       *)
(***************************************************************************)

\* Bound of SpecJR: the highest target address.
MaxTarget == 400

\* Instruction addresses: the start of memory and ORG 100H.
JrPCs == {0, 256}

\* opC['JR'], the opcode of DJNZ, and the condition codes JR may carry.
OpJR == 24
OpJRcc == 32
OpDJNZ == 16
JrConds == {"NZ", "Z", "NC", "C"}
Cond(c) == CASE c = "NZ" -> 0 [] c = "Z" -> 8 [] c = "NC" -> 16 [] OTHER -> 24

\* EvalArith16 of a value: the 16-bit value and whether it is an error.
EvalArith16(value, phase, enable) ==
    IF value >= -32768 /\ value <= 65535
    THEN [value |-> value % 65536, err |-> FALSE]
    ELSE [value |-> 0, err |-> phase = 2 /\ enable]

\* A range test that lets +128 through.
JrFarWide(address) == address < -128 \/ address > 128

\* ( address < -128 ) or ( address > 127 )
JrFar(address) == address < -128 \/ address > 127

\* Parse of the line: the code in mc and the error in sErr.
JrCode(op, cond, pc, target, phase, enable) ==
    LET t == EvalArith16(target, phase, enable)
        e0 == IF t.err THEN AsmErr("none", "value") ELSE "none"
        address == t.value - (pc + 0 + 2)
        bad == phase = 2 /\ enable /\ JrFar(address)
        e1 == IF bad THEN AsmErr(e0, "range") ELSE e0
    IN  IF op = "JR"
        THEN [mc |-> <<IF cond = "" THEN OpJR ELSE OpJRcc + Cond(cond),
                       (IF bad THEN 0 ELSE address) % 256>>,
              sErr |-> e1]
        ELSE [mc |-> <<OpDJNZ, address % 256>>, sErr |-> e1]

\* Parse.
JrParse ==
    /\ jr.at = "read"
    /\ LET r == JrCode(jr.op, jr.cond, jr.pc, jr.target, jr.phase, jr.enable)
       IN  jr' = [jr EXCEPT !.at = "parsed", !.mc = r.mc, !.sErr = r.sErr]
    /\ JrFrame

\* AsmPass after Parse: the error is counted, and PC moves past the code when
\* the block is enabled.
JrCount ==
    /\ jr.at = "parsed"
    /\ jr' = [jr EXCEPT !.at = "counted",
                        !.nErr = IF jr.sErr # "none" THEN @ + 1 ELSE @,
                        !.pc = IF jr.enable THEN @ + Len(jr.mc) ELSE @]
    /\ JrFrame

NextJR == JrParse \/ JrCount

\* A line with a relative jump has been read, in either pass, in an enabled
\* or a disabled block.
InitJR ==
    /\ jr \in [at : {"read"}, op : {"JR"}, cond : JrConds \cup {""}, pc : JrPCs,
               target : 0..MaxTarget, phase : {1, 2}, enable : BOOLEAN,
               mc : {<<>>}, sErr : {"none"}, nErr : {0}]
         \cup [at : {"read"}, op : {"DJNZ"}, cond : {""}, pc : JrPCs,
               target : 0..MaxTarget, phase : {1, 2}, enable : BOOLEAN,
               mc : {<<>>}, sErr : {"none"}, nErr : {0}]
    /\ JrRest

SpecJR == InitJR /\ [][NextJR]_vars

\* The displacement T - (PC + 2) of the line (PC before the line), and
\* whether the line is range-checked.
JrDisp == jr.target - ((IF jr.at = "counted" /\ jr.enable THEN jr.pc - 2 ELSE jr.pc) + 2)
JrChecked == jr.phase = 2 /\ jr.enable

(***************************************************************************)
(* C9 as stated: the displacement byte is (T - (PC + 2)) mod 256, and the  *)
(* range error is recorded exactly when the line is in pass 2, enabled,    *)
(* and T - (PC + 2) is outside -128..127.                                  *)
(***************************************************************************)
C9_DisplacementByte ==
    jr.at \in {"parsed", "counted"} =>
        /\ jr.mc[2] = JrDisp % 256
        /\ (jr.sErr = "range") <=> (JrChecked /\ (JrDisp < -128 \/ JrDisp > 127))

(***************************************************************************)
(* C9 as the code has it: the displacement byte is (T - (PC + 2)) mod 256, *)
(* except that a JR for which the range error is recorded emits 0; the     *)
(* range error is recorded exactly when the line is in pass 2, enabled,    *)
(* and T - (PC + 2) is outside -128..127.                                  *)
(***************************************************************************)
C9_DisplacementUnlessError ==
    jr.at \in {"parsed", "counted"} =>
        LET far == JrDisp < -128 \/ JrDisp > 127
        IN  /\ Len(jr.mc) = 2
            /\ jr.mc[1] = (CASE jr.op = "DJNZ" -> OpDJNZ
                             [] jr.cond = "" -> OpJR
                             [] OTHER -> OpJRcc + Cond(jr.cond))
            /\ jr.mc[2] = IF jr.op = "JR" /\ JrChecked /\ far THEN 0 ELSE JrDisp % 256
            /\ (jr.sErr = "range") <=> (JrChecked /\ far)
            /\ jr.sErr \in {"none", "range"}

\* ORG 100H / L1: JR L1 in pass 2: the code is 18 FE and no error.
C9_Witness ==
    /\ jr.at = "counted" /\ jr.op = "JR" /\ jr.cond = ""
    /\ jr.phase = 2 /\ jr.enable
    /\ jr.target = 256 /\ jr.pc = 258
    /\ jr.mc = <<24, 254>> /\ jr.sErr = "none" /\ jr.nErr = 0

(***************************************************************************)
(* Repeat blocks: AsmPass reading a file line by line, Parse of REPT and   *)
(* ENDM with the stack self.macros, and the seek back into the file.  A    *)
(* file position is the index of the next line to read.                    *)
(***************************************************************************)

\* Bounds of SpecRept: the lines of the file and the highest repeat count.
MaxReptLines == 5
MaxReptCount == 3

\* The lines: DB 0AAH, DB 1, REPT n, ENDM.
ReptLines == [op : {"DB"}, n : {170, 1}]
               \cup [op : {"REPT"}, n : 1..MaxReptCount]
               \cup [op : {"ENDM"}, n : {0}]

\* The number of REPT blocks open after the first k lines of a file.
RECURSIVE Depth(_, _)
Depth(s, k) ==
    IF k = 0 THEN 0
    ELSE Depth(s, k - 1) + (CASE s[k].op = "REPT" -> 1
                              [] s[k].op = "ENDM" -> -1
                              [] OTHER -> 0)

\* Every ENDM closes a REPT and every REPT is closed.
WellFormed(s) ==
    /\ \A k \in 1..Len(s) : Depth(s, k) >= 0
    /\ Depth(s, Len(s)) = 0

\* A repeat test that runs the body once more.
ReptMoreOrEqual(n) == n >= 0

\* macro[3] > 0
ReptMore(n) == n > 0

\* Parse of one line at file position pos (readline has moved the file to
\* pos + 1), then AsmPass: the error is counted and the code delivered.
ReptStep(r, line) ==
    LET next == r.pos + 1
        top == Last(r.macros)
        left == top.n - 1
        p == CASE line.op = "REPT" ->
                    [r EXCEPT !.pos = next, !.sErr = "none",
                              !.macros = IF r.enable /\ line.n > 0
                                         THEN Append(@, [kind |-> "R", handle |-> 1,
                                                         tell |-> next, n |-> line.n])
                                         ELSE @]
               [] line.op = "ENDM" ->
                    IF Len(r.macros) = 0
                    THEN [r EXCEPT !.pos = next, !.sErr = AsmErr("none", "endm")]
                    ELSE IF ReptMore(left)
                    THEN IF top.handle # 1
                         THEN [r EXCEPT !.pos = next, !.macros = Front(@),
                                        !.sErr = AsmErr("none", "files")]
                         ELSE [r EXCEPT !.pos = top.tell, !.sErr = "none",
                                        !.macros = Append(Front(@), [top EXCEPT !.n = left])]
                    ELSE [r EXCEPT !.pos = next, !.sErr = "none", !.macros = Front(@)]
               [] OTHER -> [r EXCEPT !.pos = next, !.sErr = "none"]
    IN  [p EXCEPT !.nErr = IF p.sErr # "none" THEN @ + 1 ELSE @,
                  !.out = IF line.op = "DB" /\ r.enable THEN Append(@, line.n) ELSE @]

\* AsmPass reads the line at the file position.
ReptLine ==
    /\ ~rept.done /\ rept.pos <= Len(reptsrc)
    /\ rept' = ReptStep(rept, reptsrc[rept.pos])
    /\ UNCHANGED reptsrc
    /\ ReptFrame

\* readline returns nothing: the end of the file.
ReptEnd ==
    /\ ~rept.done /\ rept.pos > Len(reptsrc)
    /\ rept' = [rept EXCEPT !.done = TRUE]
    /\ UNCHANGED reptsrc
    /\ ReptFrame

NextRept == ReptLine \/ ReptEnd

\* A file whose REPT blocks are closed, read inside an enabled or a disabled
\* block.
InitRept ==
    /\ reptsrc \in {s \in UNION {[1..k -> ReptLines] : k \in 0..MaxReptLines} :
                        WellFormed(s)}
    /\ rept \in [pos : {1}, macros : {<<>>}, enable : BOOLEAN, out : {<<>>},
                 sErr : {"none"}, nErr : {0}, done : {FALSE}]
    /\ ReptRest

SpecRept == InitRept /\ [][NextRept]_vars

\* AsmPass keeps reading while there are lines.
SpecReptFair == SpecRept /\ WF_vars(NextRept)

\* What REPT means: the code of the lines from i up to the ENDM that closes
\* the block they are in (or the end of the file), each inner block n times.
RECURSIVE Expand(_, _)
Expand(s, i) ==
    IF i > Len(s) \/ s[i].op = "ENDM" THEN [out |-> <<>>, next |-> i]
    ELSE IF s[i].op = "DB"
    THEN LET rest == Expand(s, i + 1)
         IN  [out |-> <<s[i].n>> \o rest.out, next |-> rest.next]
    ELSE LET body == Expand(s, i + 1)
             rest == Expand(s, body.next + 1)
             RECURSIVE Times(_)
             Times(k) == IF k = 0 THEN <<>> ELSE body.out \o Times(k - 1)
         IN  [out |-> Times(s[i].n) \o rest.out, next |-> rest.next]

\* While the file is read in an enabled block: the stack holds exactly the
\* open REPT blocks, each with iterations left and the offset after its REPT;
\* at the end the code is the expansion and no error was counted.
ReptSafe ==
    rept.enable =>
        /\ Len(rept.macros) = Depth(reptsrc, rept.pos - 1)
        /\ \A k \in 1..Len(rept.macros) :
               /\ rept.macros[k].n >= 1
               /\ reptsrc[rept.macros[k].tell - 1].op = "REPT"
               /\ rept.macros[k].n <= reptsrc[rept.macros[k].tell - 1].n
        /\ rept.done => /\ rept.out = Expand(reptsrc, 1).out
                        /\ rept.macros = <<>>
                        /\ rept.nErr = 0

\* An ENDM step in an enabled block: the innermost REPT loses one iteration;
\* the file goes back to its offset if iterations remain, else on to the
\* next line with the stack as it was before the REPT.
ReptEndmStep ==
    (rept.enable /\ ~rept.done /\ rept.pos <= Len(reptsrc)
       /\ reptsrc[rept.pos].op = "ENDM" /\ rept.macros # <<>>) =>
        LET top == Last(rept.macros)
        IN  IF top.n - 1 > 0
            THEN /\ rept'.pos = top.tell
                 /\ rept'.macros = Append(Front(rept.macros), [top EXCEPT !.n = top.n - 1])
            ELSE /\ rept'.pos = rept.pos + 1
                 /\ rept'.macros = Front(rept.macros)

LowerChar(c) == CASE c = "F" -> "f" [] c = "O" -> "o" [] OTHER -> c
Lower(s) == [i \in DOMAIN s |-> LowerChar(s[i])]

\* Assemble: self.bLabCase after the options are read.
DefaultLabCase(style) == style \in {"M80"}

\* Assemble: self.bStrict after the options are read (no --permissive).
DefaultStrict(style) == style \notin {"MA"}

\* Label, Public and ExprEval: the key of a name in publics and labels.
LabelKeyAsWritten(bLabCase, sLabel) == sLabel
LabelKey(bLabCase, sLabel) == IF bLabCase THEN sLabel ELSE Lower(sLabel)

\* Parse of IFDEF: the key looked up, self.sArgs as written.
IfdefKey(bLabCase, sArgs) == sArgs

\* The sources assembled: an optional label line, IFDEF n / DB 1 / ELSE /
\* DB 2 with or without its ENDIF, an optional DW of a label.
SymOrg == 256
SymProgram(n, closed) ==
    <<[op |-> "IFDEF", name |-> n], [op |-> "DB", val |-> 1], [op |-> "ELSE"],
      [op |-> "DB", val |-> 2]>> \o (IF closed THEN <<[op |-> "ENDIF"]>> ELSE <<>>)
SymSources ==
    { pre \o SymProgram(n, closed) \o post :
        pre \in {<<>>} \cup {<<[op |-> "LABEL", name |-> m]>> : m \in SymNames},
        n \in SymNames, closed \in BOOLEAN,
        post \in {<<>>} \cup {<<[op |-> "DW", name |-> m]>> : m \in SymNames} }

\* Assembler.Label with the key normalised and the name kept as written in
\* the Label created.
SymLabel(s, sLabel, bPublic, value, file) ==
    LET key == LabelKey(s.bLabCase, sLabel)
        r == Label(s.publics, s.labels, s.sErr, key, bPublic, value, file,
                   s.phase, s.bStrict)
        look == LabelLookup(s.publics, s.labels, key, bPublic, file)
    IN  [s EXCEPT !.publics = r.publics, !.labels = r.labels, !.sErr = r.sErr,
                  !.pnames = IF ~look.label.present /\ look.pub
                             THEN [@ EXCEPT ![key] = sLabel] ELSE @,
                  !.lnames = IF ~look.label.present /\ ~look.pub
                             THEN [@ EXCEPT ![key] = sLabel] ELSE @]

\* ExprEval of one label term: the value and the error.
SymEval(s, arg) ==
    LET key == LabelKey(s.bLabCase, arg)
        label == IF s.labels[key].present THEN s.labels[key] ELSE s.publics[key]
    IN  IF label.present /\ label.value # NoAddr
        THEN [value |-> label.value, err |-> "none"]
        ELSE IF s.phase = 2 /\ Last(s.enable)
             THEN [value |-> 0, err |-> "undef"]
             ELSE [value |-> 0, err |-> "none"]

\* Assembler.Parse of one line: the state and the machine code self.mc.
SymParse(s0, line) ==
    LET s == [s0 EXCEPT !.sErr = "none"]
        en == Last(s.enable)
    IN  CASE line.op = "LABEL" ->
               [s |-> IF en THEN SymLabel(s, line.name, FALSE, s.pc, 1) ELSE s,
                mc |-> <<>>]
          [] line.op = "IFDEF" ->
               LET key == IfdefKey(s.bLabCase, line.name)
                   found == s.publics[key].present \/ s.labels[key].present
               IN  [s |-> [s EXCEPT !.enable = Append(@, en /\ found)], mc |-> <<>>]
          [] line.op = "ELSE" ->
               [s |-> IF Len(s.enable) >= 2
                      THEN [s EXCEPT !.enable[Len(s.enable)] =
                                s.enable[Len(s.enable) - 1] /\ ~en]
                      ELSE [s EXCEPT !.sErr = AsmErr(s.sErr, "else")],
                mc |-> <<>>]
          [] line.op = "ENDIF" ->
               [s |-> IF Len(s.enable) < 2
                      THEN [s EXCEPT !.sErr = AsmErr(s.sErr, "endif")]
                      ELSE [s EXCEPT !.enable = Front(@)],
                mc |-> <<>>]
          [] line.op = "DB" -> [s |-> s, mc |-> <<line.val>>]
          [] line.op = "DW" ->
               LET v == SymEval(s, line.name)
               IN  [s |-> IF v.err = "none" THEN s
                          ELSE [s EXCEPT !.sErr = AsmErr(s.sErr, v.err)],
                    mc |-> <<v.value % 256, (v.value \div 256) % 256>>]

\* Assemble: the options are read, then every --define becomes a public
\* symbol of value 1 located at the command line (file 0).
SymDefine ==
    /\ sym.at = "opts"
    /\ sym' = IF sym.define = NoName THEN [sym EXCEPT !.at = "run"]
              ELSE [SymLabel(sym, sym.define, TRUE, 1, 0) EXCEPT !.at = "run"]
    /\ UNCHANGED symsrc
    /\ SymFrame

\* AsmPass: one line is parsed; its code is counted and delivered when the
\* line ends enabled.
SymLine ==
    /\ sym.at = "run" /\ sym.pos < Len(symsrc)
    /\ LET r == SymParse(sym, symsrc[sym.pos + 1])
           en == Last(r.s.enable)
       IN  sym' = [r.s EXCEPT !.pos = sym.pos + 1,
                              !.nErr = IF r.s.sErr # "none" THEN @ + 1 ELSE @,
                              !.pc = IF en THEN @ + Len(r.mc) ELSE @,
                              !.out = IF en /\ sym.phase = 2 THEN @ \o r.mc ELSE @]
    /\ UNCHANGED symsrc
    /\ SymFrame

\* AsmPass at the end of the file, then Assemble: an IF left open is an error
\* (MA closes it silently); pass 2 follows an error-free pass 1.
SymEndPass ==
    /\ sym.at = "run" /\ sym.pos = Len(symsrc)
    /\ LET open == Len(sym.enable) # 1
           quiet == sym.style = "MA"
           nErr == IF open /\ ~quiet THEN sym.nErr + 1 ELSE sym.nErr
           enable == IF open /\ quiet THEN <<TRUE>> ELSE sym.enable
       IN  sym' = IF sym.phase = 1 /\ nErr = 0
                  THEN [sym EXCEPT !.phase = 2, !.pos = 0, !.pc = SymOrg,
                                   !.enable = enable, !.nErr = nErr]
                  ELSE [sym EXCEPT !.at = "done", !.enable = enable, !.nErr = nErr]
    /\ UNCHANGED symsrc
    /\ SymFrame

NextSym == SymDefine \/ SymLine \/ SymEndPass

InitSym ==
    /\ \E style \in AllStyles, define \in SymNames \cup {NoName} :
          sym = [at |-> "opts", style |-> style, define |-> define,
                 bLabCase |-> DefaultLabCase(style),
                 bStrict |-> DefaultStrict(style),
                 phase |-> 1, pos |-> 0, enable |-> <<TRUE>>,
                 pc |-> SymOrg, out |-> <<>>, sErr |-> "none", nErr |-> 0,
                 publics |-> [k \in SymNames |-> Absent],
                 labels |-> [k \in SymNames |-> Absent],
                 pnames |-> [k \in SymNames |-> NoName],
                 lnames |-> [k \in SymNames |-> NoName]]
    /\ symsrc \in SymSources
    /\ SymRest

SpecSym == InitSym /\ [][NextSym]_vars

\* The run assembled exactly IFDEF n / DB 1 / ELSE / DB 2 / ENDIF to its end.
SymRanIfdef(n) == sym.at = "done" /\ sym.phase = 2 /\ symsrc = SymProgram(n, TRUE)

(***************************************************************************)
(* C11: in every dialect IFDEF FOO / DB 1 / ELSE / DB 2 / ENDIF delivers   *)
(* the byte 1 when the command line defines FOO and the byte 2 when it     *)
(* defines nothing.                                                        *)
(***************************************************************************)
C11_IfdefSeesDefine ==
    \A n \in SymNames :
        SymRanIfdef(n) =>
            /\ sym.define = n => sym.out = <<1>>
            /\ sym.define = NoName => sym.out = <<2>>


\* The names the run defines: the --define and the label lines of the source.
SymDefined ==
    (IF sym.define = NoName THEN {} ELSE {sym.define})
    \cup {symsrc[i].name : i \in {j \in DOMAIN symsrc : symsrc[j].op = "LABEL"}}

\* Two names written for the same symbol under the flag.
SameName(a, b) == IF sym.bLabCase THEN a = b ELSE Lower(a) = Lower(b)

\* Pass 2 has just parsed an enabled DW of a label as the last line.
SymAfterDW ==
    /\ sym.at = "run" /\ sym.phase = 2 /\ sym.pos = Len(symsrc)
    /\ symsrc[Len(symsrc)].op = "DW" /\ Last(sym.enable)

\* Every Label in a table sits under the key its written name gives, and the
\* name it keeps is one the run wrote.
SymKeyed(table, names) ==
    \A k \in SymNames :
        table[k].present =>
            /\ names[k] \in SymDefined
            /\ k = (IF sym.bLabCase THEN names[k] ELSE Lower(names[k]))

\* A reference finds its label exactly when the run defined the name, under
\* the flag's comparison.
SymLookupFinds ==
    SymAfterDW =>
        (sym.sErr = "none" <=>
            \E d \in SymDefined : SameName(d, symsrc[Len(symsrc)].name))

(***************************************************************************)
(* C20 as stated: label case-sensitivity defaults to off for M80 and on    *)
(* for MA, PASMO and ZASM; when it is off, definition and lookup key by    *)
(* the lowercased name and the Label keeps the name as written.            *)
(***************************************************************************)
C20_CaseDefaultsAsStated ==
    sym.at # "none" =>
        /\ sym.bLabCase = (sym.style # "M80")
        /\ SymKeyed(sym.publics, sym.pnames) /\ SymKeyed(sym.labels, sym.lnames)
        /\ SymLookupFinds

(***************************************************************************)
(* C20 amended: label case-sensitivity defaults to on for M80 and off for  *)
(* MA, PASMO and ZASM; when it is off, definition and lookup key by the    *)
(* lowercased name, so Foo and FOO are one label, and the Label keeps the  *)
(* name as written; when it is on the key is the name as written.          *)
(***************************************************************************)
C20_CaseKeys ==
    sym.at # "none" =>
        /\ sym.bLabCase = (sym.style = "M80")
        /\ SymKeyed(sym.publics, sym.pnames) /\ SymKeyed(sym.labels, sym.lnames)
        /\ SymLookupFinds

\* Case-sensitivity off, the label written Foo, found by a DW of FOO.
C20_Witness ==
    /\ SymAfterDW /\ ~sym.bLabCase /\ sym.sErr = "none"
    /\ sym.labels[<<"f", "o", "o">>].present
    /\ sym.lnames[<<"f", "o", "o">>] = <<"F", "o", "o">>
    /\ symsrc[Len(symsrc)].name = <<"F", "O", "O">>
    /\ sym.define = NoName


(***************************************************************************)
(* C13: in pass 1, defining a label (public or local) that already has a   *)
(* value records the duplicate-definition error whenever strict mode is on *)
(* or the new value differs, and leaves the stored value unchanged; the    *)
(* same value in non-strict mode is accepted silently.                     *)
(***************************************************************************)
C13_DuplicateChecked ==
    (lablast.def /\ lablast.phase = 1 /\ HasValue(lablast.old)) =>
        LET now == LabelNamed(publics, locals[lablast.file], lablast.name,
                              lablast.bPublic, lablast.file)
        IN  /\ lab.sErr = "dup" <=>
                   (lab.bStrict \/ lablast.value # lablast.old.value)
            /\ now.value = lablast.old.value


(***************************************************************************)
(* Expression evaluation: ExprEval over the term list ExprParse delivers,  *)
(* and the range-checking wrappers EvalArith16, EvalArithS8, EvalArith8.   *)
(***************************************************************************)

\* Python's // and % on integers: the quotient rounded down, the remainder
\* with the sign of the divisor (b # 0).
PyFloorDiv(a, b) == IF b > 0 THEN a \div b ELSE (0 - a) \div (0 - b)
PyMod(a, b) == a - b * PyFloorDiv(a, b)

\* Quotient rounded toward zero and its remainder (b # 0).
Abs(a) == IF a < 0 THEN 0 - a ELSE a
TruncDiv(a, b) ==
    IF (a < 0) = (b < 0) THEN Abs(a) \div Abs(b) ELSE 0 - (Abs(a) \div Abs(b))
TruncMod(a, b) == a - b * TruncDiv(a, b)

\* Python's &, | and ^ on integers of any sign (two's complement without end).
RECURSIVE BitAnd(_, _)
BitAnd(a, b) ==
    IF a = 0 \/ b = 0 THEN 0
    ELSE IF a = -1 THEN b
    ELSE IF b = -1 THEN a
    ELSE (a % 2) * (b % 2) + 2 * BitAnd(a \div 2, b \div 2)

RECURSIVE BitOr(_, _)
BitOr(a, b) ==
    IF a = 0 THEN b
    ELSE IF b = 0 THEN a
    ELSE IF a = -1 \/ b = -1 THEN -1
    ELSE Max(a % 2, b % 2) + 2 * BitOr(a \div 2, b \div 2)

RECURSIVE BitXor(_, _)
BitXor(a, b) ==
    IF a = 0 THEN b
    ELSE IF b = 0 THEN a
    ELSE IF a = -1 THEN -1 - b
    ELSE IF b = -1 THEN -1 - a
    ELSE (((a % 2) + (b % 2)) % 2) + 2 * BitXor(a \div 2, b \div 2)

RECURSIVE Pow2(_)
Pow2(n) == IF n = 0 THEN 1 ELSE 2 * Pow2(n - 1)

\* TriArg (cond, 0xFFFF, 0)
TriArg(cond, a, b) == IF cond THEN a ELSE b

\* The operators of ExprEval that take one value and those that take two.
UnaryOps == {"U+", "U-", "U~", "NOT", "HIGH", "LOW"}
BinaryOps == {"+", "-", "*", "/", "MOD", "SHL", "SHR", "EQ", "NE", "LT", "LE",
              "GE", "GT", "&", "AND", "!", "OR", "^", "XOR"}

\* self.evLvl[eval][term]: 0 the normal binding rules, 1 the MA simple
\* evaluator.
evLvl(eval, term) ==
    IF eval = 0
    THEN CASE term \in {"U+", "U-", "U~", "L2"} -> 9
           [] term \in {"LOW", "HIGH"} -> 8
           [] term \in {"*", "/", "MOD", "SHL", "SHR"} -> 7
           [] term \in {"+", "-"} -> 6
           [] term \in {"EQ", "NE", "LT", "LE", "GE", "GT"} -> 5
           [] term = "NOT" -> 4
           [] term \in {"&", "AND"} -> 3
           [] term \in {"!", "OR", "^", "XOR"} -> 2
           [] term \in {"(", ")"} -> 1
           [] term = "," -> 0
    ELSE CASE term \in {"U+", "U-", "U~", "L2"} -> 3
           [] term \in {"(", ")"} -> 1
           [] term = "," -> 0
           [] OTHER -> 2

\* ExprEval: one operator applied to the value on top of lValue.
ApplyUn(op, v) ==
    CASE op = "U+" -> v
      [] op = "U-" -> 0 - v
      [] op \in {"U~", "NOT"} -> BitXor(v, 65535)
      [] op = "HIGH" -> v \div 256
      [] op = "LOW" -> v % 256

\* ExprEval: one operator applied to the two values on top of lValue, for a
\* divisor other than 0 and a shift count of 0 or more.
ApplyBin(op, l, r) ==
    CASE op = "+" -> l + r
      [] op = "-" -> l - r
      [] op = "*" -> l * r
      [] op = "/" -> PyFloorDiv(l, r)
      [] op = "MOD" -> PyMod(l, r)
      [] op = "SHL" -> IF r >= 16 THEN 0 ELSE ((l % 65536) * Pow2(r)) % 65536
      [] op = "SHR" -> IF r >= 31 THEN (IF l < 0 THEN -1 ELSE 0) ELSE l \div Pow2(r)
      [] op = "EQ" -> TriArg(l = r, 65535, 0)
      [] op = "NE" -> TriArg(l # r, 65535, 0)
      [] op = "LT" -> TriArg(l < r, 65535, 0)
      [] op = "LE" -> TriArg(l <= r, 65535, 0)
      [] op = "GE" -> TriArg(l >= r, 65535, 0)
      [] op = "GT" -> TriArg(l > r, 65535, 0)
      [] op \in {"&", "AND"} -> BitAnd(l, r)
      [] op \in {"!", "OR"} -> BitOr(l, r)
      [] op \in {"^", "XOR"} -> BitXor(l, r)

\* ExprEval: the exceptions the try statement catches (IndexError).
Caught == {"IndexError"}

\* ExprEval: the while loop that applies the operators on lOp binding at
\* least as tightly as level rl. st is "ok" when the loop ends, "ret" when
\* ExprEval returns 0 with an error, "raise" when an exception leaves it.
RECURSIVE Unwind(_, _, _, _, _)
Unwind(rl, lValue, lOp, sErr, op) ==
    IF lOp = <<>> \/ Last(lOp).lvl < rl
    THEN [lValue |-> lValue, lOp |-> lOp, sErr |-> sErr, op |-> op, st |-> "ok"]
    ELSE LET o == Last(lOp).op
             ops == Front(lOp)
             n == Len(lValue)
             exc(e) == IF e \in Caught
                       THEN [lValue |-> lValue, lOp |-> ops,
                             sErr |-> AsmErr(sErr, "eval"), op |-> o, st |-> "ret"]
                       ELSE [lValue |-> lValue, lOp |-> ops, sErr |-> sErr,
                             op |-> o, st |-> "raise"]
         IN  IF o = "("
             THEN [lValue |-> lValue, lOp |-> ops, sErr |-> sErr, op |-> o,
                   st |-> "ok"]
             ELSE IF o \in UnaryOps
             THEN IF n < 1 THEN exc("IndexError")
                  ELSE Unwind(rl, [lValue EXCEPT ![n] = ApplyUn(o, @)], ops, sErr, o)
             ELSE IF o \in BinaryOps
             THEN IF n < 1 THEN exc("IndexError")
                  ELSE LET r == lValue[n]
                           rest == Front(lValue)
                       IN  IF o \in {"SHL", "SHR"} /\ r < 0
                           THEN Unwind(rl, rest, ops, AsmErr(sErr, "negshift"), o)
                           ELSE IF n < 2 THEN exc("IndexError")
                           ELSE IF o \in {"/", "MOD"} /\ r = 0
                           THEN exc("ZeroDivisionError")
                           ELSE Unwind(rl, [rest EXCEPT ![n - 1] = ApplyBin(o, @, r)],
                                       ops, sErr, o)
             ELSE [lValue |-> lValue, lOp |-> ops,
                   sErr |-> AsmErr(sErr, "operator"), op |-> o, st |-> "ret"]

\* ExprEval: an undefined label is an error in pass 2 in an enabled block.
UndefinedIsErrorAlways(phase, enable) == TRUE
UndefinedIsError(phase, enable) == phase = 2 /\ enable

\* ExprEval with the publics consulted before the locals.
LabelValuePublicsFirst(labels, pub, arg) ==
    LET label == IF pub[arg].present THEN pub[arg] ELSE labels[arg]
    IN  IF label.present THEN label.value ELSE NoAddr

\* ExprEval: the value of a label term, NoAddr for Python's None. Labels of
\* the absolute segment only (self.base['A'] = 0).
LabelValue(labels, pub, arg) ==
    LET label == IF labels[arg].present THEN labels[arg] ELSE pub[arg]
    IN  IF label.present THEN label.value ELSE NoAddr

\* ExprEval: what the call leaves: the value returned, sErr, and whether an
\* exception ended the run instead.
EvalResult(value, sErr, abort) == [value |-> value, sErr |-> sErr, abort |-> abort]

\* ExprEval from term i on. c holds eval, phase, enable, labels and publics;
\* op is the operator last taken from lOp ("unset" before the first).
RECURSIVE EvalTerms(_, _, _, _, _, _, _)
EvalTerms(c, lExpr, i, lValue, lOp, sErr, op) ==
    LET finish(vals, ops, err) ==
            IF ops # <<>> \/ Len(vals) # 1
            THEN EvalResult(0, AsmErr(err, "eval"), FALSE)
            ELSE EvalResult(vals[1], err, FALSE)
    IN  IF i > Len(lExpr) THEN finish(lValue, lOp, sErr)
        ELSE LET t == lExpr[i]
                 push == Append(lOp, [lvl |-> evLvl(c.eval, t.term), op |-> t.term])
             IN  IF t.term \in {"B", "D", "H", "Q"}
                 THEN EvalTerms(c, lExpr, i + 1, Append(lValue, t.arg), lOp, sErr, op)
                 ELSE IF t.term = "L"
                 THEN LET v == LabelValue(c.labels, c.publics, t.name)
                      IN  IF v # NoAddr
                          THEN EvalTerms(c, lExpr, i + 1, Append(lValue, v), lOp,
                                         sErr, op)
                          ELSE IF UndefinedIsError(c.phase, c.enable)
                          THEN EvalResult(0, AsmErr(sErr, "undef"), FALSE)
                          ELSE EvalTerms(c, lExpr, i + 1, Append(lValue, 0), lOp,
                                         sErr, op)
                 ELSE IF t.term = "("
                 THEN EvalTerms(c, lExpr, i + 1, lValue, push, sErr, op)
                 ELSE LET u == Unwind(evLvl(c.eval, t.term), lValue, lOp, sErr, op)
                          next == Append(u.lOp, [lvl |-> evLvl(c.eval, t.term),
                                                 op |-> t.term])
                      IN  IF u.st = "ret" THEN EvalResult(0, u.sErr, FALSE)
                          ELSE IF u.st = "raise" THEN EvalResult(0, u.sErr, TRUE)
                          ELSE IF t.term = ")"
                          THEN IF u.op = "unset" THEN EvalResult(0, u.sErr, TRUE)
                               ELSE IF u.op # "("
                               THEN EvalResult(0, AsmErr(u.sErr, "brackets"), FALSE)
                               ELSE EvalTerms(c, lExpr, i + 1, u.lValue, u.lOp,
                                              u.sErr, u.op)
                          ELSE IF t.term = ","
                          THEN finish(u.lValue, u.lOp, u.sErr)
                          ELSE EvalTerms(c, lExpr, i + 1, u.lValue, next, u.sErr, u.op)

ExprEval(c, lExpr) == EvalTerms(c, lExpr, 1, <<>>, <<>>, "none", "unset")

\* EvalArithS8 and EvalArith8 of a value: the byte and whether it is an error.
EvalArithS8(value, phase, enable) ==
    IF value >= -128 /\ value <= 127
    THEN [value |-> value % 256, err |-> FALSE]
    ELSE [value |-> 0, err |-> phase = 2 /\ enable]

EvalArith8(value, phase, enable) ==
    IF value >= 65280 /\ value <= 65535
    THEN [value |-> value % 256, err |-> FALSE]
    ELSE IF value > -128 /\ value <= 255
    THEN [value |-> value % 256, err |-> FALSE]
    ELSE [value |-> 0, err |-> phase = 2 /\ enable]

\* The terms of ExprParse: a number, a label, an operator.
Val(v) == [term |-> "D", arg |-> v, name |-> ""]
Lab(n) == [term |-> "L", arg |-> 0, name |-> n]
Op(o) == [term |-> o, arg |-> 0, name |-> ""]

\* An operand with its unary operators written before it.
Opnd(un, t) == [un |-> un, t |-> t]

\* ExprParse of operand, operator, operand, ...: the unary operators of each
\* operand, the operand, the binary operator after it, and the closing ','.
RECURSIVE Terms(_, _)
Terms(expr, i) ==
    IF i > Len(expr.opnds) THEN <<Op(",")>>
    ELSE [k \in DOMAIN expr.opnds[i].un |-> Op(expr.opnds[i].un[k])]
         \o <<expr.opnds[i].t>>
         \o (IF i <= Len(expr.ops) THEN <<Op(expr.ops[i])>> ELSE <<>>)
         \o Terms(expr, i + 1)

\* The expressions evaluated.
EvalSmall == {0, 1, 2, 7}
EvalTriple == {1, 2, 6}
EvalEdges == {0, 127, 128, 129, 255, 256, 32767, 32768, 32769, 65279, 65280,
              65407, 65408, 65535, 65536}
EvalSigns == {<<>>, <<"U-">>}
EvalUnaries == {<<>>, <<"U-">>, <<"U~">>, <<"NOT">>}
EvalBinary == {"+", "-", "*", "/", "MOD", "SHL", "SHR", "EQ", "NE", "LT", "LE",
               "GE", "GT", "AND", "OR", "XOR"}
EvalLevels == {"+", "-", "*", "/", "MOD", "SHL", "SHR", "EQ", "LT", "AND", "OR",
               "XOR"}
NoLabels == [n \in Names |-> Absent]

EvalInput(wrap, expr, eval, phase, enable, labels, pub) ==
    [wrap |-> wrap, src |-> expr, eval |-> eval, phase |-> phase,
     enable |-> enable, labels |-> labels, publics |-> pub]

\* [unary] a op [unary] b
EvalPairs ==
    { EvalInput("EvalArith",
                [opnds |-> <<Opnd(u1, Val(a)), Opnd(u2, Val(b))>>, ops |-> <<o>>],
                e, p, TRUE, NoLabels, NoLabels) :
        u1 \in EvalSigns, a \in EvalSmall, o \in EvalBinary, u2 \in EvalUnaries,
        b \in EvalSmall, e \in {0, 1}, p \in {1, 2} }

\* a op [-] b op c
EvalTriples ==
    { EvalInput("EvalArith",
                [opnds |-> <<Opnd(<<>>, Val(v[1])), Opnd(u, Val(v[2])),
                             Opnd(<<>>, Val(v[3]))>>,
                 ops |-> o],
                e, 2, TRUE, NoLabels, NoLabels) :
        u \in EvalSigns, v \in [1..3 -> EvalTriple],
        o \in [1..2 -> EvalLevels], e \in {0, 1} }

\* unary unary a
EvalStacked ==
    { EvalInput("EvalArith",
                [opnds |-> <<Opnd(<<u1, u2>>, Val(a))>>, ops |-> <<>>],
                e, p, TRUE, NoLabels, NoLabels) :
        u1 \in {"U+", "U-", "U~"}, u2 \in {"U+", "U-", "U~"}, a \in EvalSmall,
        e \in {0, 1}, p \in {1, 2} }

\* A label alone, and a label plus a number, with the label absent, declared
\* PUBLIC without a value, or defined as a local or as a public.
EvalLabelTables ==
    { [labels |-> [NoLabels EXCEPT !["foo"] = l],
       publics |-> [NoLabels EXCEPT !["foo"] = g]] :
        l \in {Absent, NewLabel(5, 1)},
        g \in {Absent, NewLabel(NoAddr, 1), NewLabel(3, 1)} }
EvalLabelRefs ==
    { EvalInput("EvalArith", s, e, p, en, c.labels, c.publics) :
        s \in { [opnds |-> <<Opnd(<<>>, Lab("foo"))>>, ops |-> <<>>],
                [opnds |-> <<Opnd(<<>>, Lab("foo")), Opnd(<<>>, Val(1))>>,
                 ops |-> <<"+">>],
                [opnds |-> <<Opnd(<<>>, Val(1)), Opnd(<<>>, Lab("foo"))>>,
                 ops |-> <<"+">>] },
        e \in {0, 1}, p \in {1, 2}, en \in BOOLEAN, c \in EvalLabelTables }

\* [-] a handed to a range-checking wrapper
EvalRanged ==
    { EvalInput(w, [opnds |-> <<Opnd(u, Val(a))>>, ops |-> <<>>],
                0, p, en, NoLabels, NoLabels) :
        w \in {"EvalArith16", "EvalArithS8", "EvalArith8"}, u \in EvalSigns,
        a \in EvalEdges, p \in {1, 2}, en \in BOOLEAN }

\* [-] a op b over 16-bit literals, with results beyond 16 bits
EvalWideLeft == {2, 65535}
EvalWideRight == {1, 2, 3}
EvalWideOps == {"+", "-", "*"}
EvalWide ==
    { EvalInput(w, [opnds |-> <<Opnd(u, Val(a)), Opnd(<<>>, Val(b))>>, ops |-> <<o>>],
                e, p, TRUE, NoLabels, NoLabels) :
        w \in {"EvalArith", "EvalArith16"}, u \in EvalSigns, a \in EvalWideLeft,
        o \in EvalWideOps, b \in EvalWideRight, e \in {0, 1}, p \in {1, 2} }

EvalInputs == EvalPairs \cup EvalTriples \cup EvalStacked \cup EvalLabelRefs
                \cup EvalRanged \cup EvalWide

\* EvalArith: the expression is parsed and evaluated.
RunEvalArith ==
    /\ ev.at = "ready" /\ ev.wrap = "EvalArith"
    /\ LET r == ExprEval(ev, Terms(ev.src, 1))
       IN  ev' = [ev EXCEPT !.at = "done", !.value = r.value, !.sErr = r.sErr,
                            !.abort = r.abort]
    /\ EvFrame

\* A wrapper: EvalArith, then the range test on its value.
RunRanged(wrap, r) ==
    /\ ev.at = "ready" /\ ev.wrap = wrap
    /\ ev' = IF r.abort
             THEN [ev EXCEPT !.at = "done", !.abort = TRUE]
             ELSE LET w == CASE wrap = "EvalArith16" ->
                                   EvalArith16(r.value, ev.phase, ev.enable)
                             [] wrap = "EvalArithS8" ->
                                   EvalArithS8(r.value, ev.phase, ev.enable)
                             [] wrap = "EvalArith8" ->
                                   EvalArith8(r.value, ev.phase, ev.enable)
                  IN  [ev EXCEPT !.at = "done", !.value = w.value,
                                 !.sErr = IF w.err THEN AsmErr(r.sErr, "range")
                                          ELSE r.sErr]
    /\ EvFrame

RunEvalArith16 == RunRanged("EvalArith16", ExprEval(ev, Terms(ev.src, 1)))
RunEvalArithS8 == RunRanged("EvalArithS8", ExprEval(ev, Terms(ev.src, 1)))
RunEvalArith8 == RunRanged("EvalArith8", ExprEval(ev, Terms(ev.src, 1)))

NextEval == RunEvalArith \/ RunEvalArith16 \/ RunEvalArithS8 \/ RunEvalArith8

InitEval ==
    /\ \E i \in EvalInputs :
          ev = [at |-> "ready", wrap |-> i.wrap, src |-> i.src, eval |-> i.eval,
                phase |-> i.phase, enable |-> i.enable, labels |-> i.labels,
                publics |-> i.publics, value |-> 0, sErr |-> "none",
                abort |-> FALSE]
    /\ EvRest

SpecEval == InitEval /\ [][NextEval]_vars


\* The value of an operand: its number under the unary operators written
\* before it, the one nearest the number first.
RECURSIVE UnValue(_, _)
UnValue(un, v) == IF un = <<>> THEN v ELSE ApplyUn(un[1], UnValue(Tail(un), v))
OperandValue(o) == UnValue(o.un, o.t.arg)

\* The evaluation is done for  [-] a op [-] b.
EvPairDone ==
    /\ ev.at = "done" /\ ev.wrap = "EvalArith" /\ Len(ev.src.opnds) = 2
    /\ \A i \in 1..2 : ev.src.opnds[i].un \in EvalSigns /\ ev.src.opnds[i].t.term = "D"
EvLeft == OperandValue(ev.src.opnds[1])
EvRight == OperandValue(ev.src.opnds[2])

\* The evaluation is done for an expression with a label in it, and whether
\* that label has no defined value.
EvLabelDone ==
    /\ ev.at = "done" /\ ev.wrap = "EvalArith"
    /\ \E i \in DOMAIN ev.src.opnds : ev.src.opnds[i].t.term = "L"
EvUndefined == ~HasValue(ev.labels["foo"]) /\ ~HasValue(ev.publics["foo"])
EvNumbers ==
    SumSeq([i \in DOMAIN ev.src.opnds |->
               IF ev.src.opnds[i].t.term = "D" THEN ev.src.opnds[i].t.arg ELSE 0])

(***************************************************************************)
(* C12: a label reference with no defined value evaluates to 0 with no     *)
(* error in pass 1 and inside disabled blocks; in pass 2 inside an enabled *)
(* block it records the error 'Undefined label' for the line.              *)
(***************************************************************************)
C12_UndefinedLabel ==
    (EvLabelDone /\ EvUndefined) =>
        /\ ~ev.abort
        /\ IF ev.phase = 2 /\ ev.enable
           THEN ev.sErr = "undef"
           ELSE ev.sErr = "none" /\ ev.value = EvNumbers

\* 1 + foo in pass 2, enabled, with foo declared PUBLIC and never defined.
C12_Witness ==
    /\ EvLabelDone /\ EvUndefined /\ ev.phase = 2 /\ ev.enable
    /\ ev.publics["foo"].present /\ Len(ev.src.opnds) = 2
    /\ ev.sErr = "undef"

(***************************************************************************)
(* C14: / and MOD truncate toward zero on signed operands, and             *)
(* a MOD b = a - b * (a / b).                                              *)
(***************************************************************************)
C14_TruncatingDivision ==
    (EvPairDone /\ ev.src.ops[1] \in {"/", "MOD"} /\ EvRight # 0) =>
        /\ ~ev.abort /\ ev.sErr = "none"
        /\ ev.value = IF ev.src.ops[1] = "/" THEN TruncDiv(EvLeft, EvRight)
                      ELSE TruncMod(EvLeft, EvRight)

(***************************************************************************)
(* C15: a division or MOD by zero, or an SHL or SHR by a negative count,   *)
(* ends with an error recorded for the line and a value returned; it never *)
(* ends the run.                                                           *)
(***************************************************************************)
C15_ErrorNotAbort ==
    (EvPairDone /\ \/ ev.src.ops[1] \in {"/", "MOD"} /\ EvRight = 0
                   \/ ev.src.ops[1] \in {"SHL", "SHR"} /\ EvRight < 0) =>
        ~ev.abort /\ ev.sErr # "none"

\* The levels of the stated order: unary, then shifts, mul/div/MOD, add/sub,
\* comparisons, AND, OR/XOR; one level for every binary operator in the
\* simple evaluator.
StatedLevel(eval, op) ==
    IF eval = 1 THEN 1
    ELSE CASE op \in {"SHL", "SHR"} -> 6
           [] op \in {"*", "/", "MOD"} -> 5
           [] op \in {"+", "-"} -> 4
           [] op \in {"EQ", "NE", "LT", "LE", "GE", "GT"} -> 3
           [] op \in {"&", "AND"} -> 2
           [] op \in {"!", "OR", "^", "XOR"} -> 1

\* A reference evaluator: unary operators first, then the binary operators
\* by level, left to right within a level. ok is FALSE where the expression
\* divides by zero or shifts by a negative count.
RefBin(op, l, r) ==
    IF ~l.ok \/ ~r.ok THEN [ok |-> FALSE, v |-> 0]
    ELSE IF (op \in {"/", "MOD"} /\ r.v = 0) \/ (op \in {"SHL", "SHR"} /\ r.v < 0)
    THEN [ok |-> FALSE, v |-> 0]
    ELSE [ok |-> TRUE, v |-> ApplyBin(op, l.v, r.v)]

RefEval(expr, Level(_, _), eval) ==
    LET val(i) == [ok |-> TRUE, v |-> OperandValue(expr.opnds[i])]
        n == Len(expr.opnds)
    IN  IF n = 1 THEN val(1)
        ELSE IF n = 2 THEN RefBin(expr.ops[1], val(1), val(2))
        ELSE IF Level(eval, expr.ops[1]) >= Level(eval, expr.ops[2])
        THEN RefBin(expr.ops[2], RefBin(expr.ops[1], val(1), val(2)), val(3))
        ELSE RefBin(expr.ops[1], val(1), RefBin(expr.ops[2], val(2), val(3)))

\* The evaluation is done for an expression of numbers.
EvNumbersDone ==
    /\ ev.at = "done" /\ ev.wrap = "EvalArith"
    /\ \A i \in DOMAIN ev.src.opnds : ev.src.opnds[i].t.term = "D"

EvAgrees(Level(_, _)) ==
    LET want == RefEval(ev.src, Level, ev.eval)
    IN  want.ok => ~ev.abort /\ ev.sErr = "none" /\ ev.value = want.v

(***************************************************************************)
(* C16: in the full evaluator every unparenthesised expression has the     *)
(* value of the reference evaluator with the order unary > shifts >        *)
(* mul/div/MOD > add/sub > comparisons > AND > OR/XOR, left-associative;   *)
(* in the simple evaluator the binary operators go strictly left to right. *)
(***************************************************************************)
C16_StatedPrecedence == EvNumbersDone => EvAgrees(StatedLevel)

\* With the levels of the evLvl table the evaluator agrees with the
\* reference on every expression whose operands carry at most a sign.
EvalFollowsTable ==
    (EvNumbersDone /\ \A i \in DOMAIN ev.src.opnds : ev.src.opnds[i].un \in EvalSigns)
        => EvAgrees(evLvl)

\* The value handed to a wrapper and the range the wrapper is said to accept.
EvRangedDone == ev.at = "done" /\ ev.wrap # "EvalArith"
EvStatedRange(wrap, v) ==
    CASE wrap = "EvalArith16" -> v >= -32768 /\ v <= 65535
      [] wrap = "EvalArithS8" -> v >= -128 /\ v <= 127
      [] wrap = "EvalArith8" -> (v >= -128 /\ v <= 255) \/ (v >= 65280 /\ v <= 65535)

(***************************************************************************)
(* C17: EvalArith16 accepts exactly -0x8000..0xFFFF, EvalArithS8 exactly   *)
(* -0x80..0x7F, EvalArith8 exactly -0x80..0xFF and 0xFF00..0xFFFF (folded  *)
(* to the low byte); any other value returns 0 and records the wrapper's   *)
(* error in pass 2 inside an enabled block.                                *)
(***************************************************************************)
C17_WrapperRanges ==
    EvRangedDone =>
        LET v == OperandValue(ev.src.opnds[1])
        IN  /\ ~ev.abort
            /\ IF EvStatedRange(ev.wrap, v)
               THEN /\ ev.sErr = "none"
                    /\ ev.value = v % (IF ev.wrap = "EvalArith16" THEN 65536 ELSE 256)
               ELSE /\ ev.value = 0
                    /\ ev.sErr = "range" <=> (ev.phase = 2 /\ ev.enable)


(***************************************************************************)
(* Hexadecimal literals: ExprParse over #hh, X'hh', 0Xhh and hhH.          *)
(***************************************************************************)

\* Bound of SpecLit: the most hex digits in a literal.
MaxLitDigits == 4

LitChars == {"1", "2", "A"}
LitDigits == UNION { [1..n -> LitChars] : n \in 1..MaxLitDigits }
LitForms == {"#", "X'", "0X", "H"}

\* The text of a literal in each form.
LitText(form, digits) ==
    CASE form = "#" -> <<"#">> \o digits
      [] form = "X'" -> <<"X", "'">> \o digits \o <<"'">>
      [] form = "0X" -> <<"0", "X">> \o digits
      [] form = "H" -> digits \o <<"H">>

\* ExprParse of the literal's text.
LitParse ==
    /\ lit.at = "ready"
    /\ lit' = [lit EXCEPT !.at = "done",
                          !.term = ExprParse(lit.style, LitText(lit.form, lit.digits),
                                             1, "exValue", <<>>, "")]
    /\ LitFrame

NextLit == LitParse

InitLit ==
    /\ \E style \in AllStyles, form \in LitForms, digits \in LitDigits :
          lit = [at |-> "ready", style |-> style, form |-> form, digits |-> digits,
                 term |-> NoParse]
    /\ LitRest

SpecLit == InitLit /\ [][NextLit]_vars

\* The number the digits written stand for.
LitValue(digits) == DigitsValue([i \in 1..Len(digits) |-> CharValue(digits[i])], 16)

(***************************************************************************)
(* C18: in every dialect each of the forms #hh, X'hh', 0xhh and hhH (the   *)
(* last starting with a decimal digit) parses to one H term whose value is *)
(* formed by all the digits written, for 1 to 4 hex digits, and the whole  *)
(* literal is consumed.                                                    *)
(***************************************************************************)
C18_HexForms ==
    (lit.at = "done" /\ (lit.form = "H" => lit.digits[1] # "A")) =>
        /\ lit.term.ok /\ lit.term.kind = "H"
        /\ lit.term.value = LitValue(lit.digits)


(***************************************************************************)
(* Instructions without operands: the op0 table and its branch of Parse.   *)
(***************************************************************************)

\* Assembler.op0: the bytes of each mnemonic.
op0 ==
    [CCF |-> <<63>>, CPD |-> <<237, 169>>, CPDR |-> <<237, 185>>,
     CPI |-> <<237, 161>>, CPIR |-> <<237, 177>>, CPL |-> <<47>>,
     DAA |-> <<39>>, DI |-> <<243>>, EI |-> <<251>>, EXX |-> <<217>>,
     HALT |-> <<118>>, IND |-> <<237, 170>>, INDR |-> <<237, 186>>,
     INI |-> <<237, 162>>, INIR |-> <<237, 178>>, LDD |-> <<237, 168>>,
     LDDR |-> <<237, 184>>, LDI |-> <<237, 160>>, LDIR |-> <<237, 176>>,
     NEG |-> <<237, 68>>, NOP |-> <<0>>, OUTD |-> <<237, 171>>,
     OTDR |-> <<237, 187>>, OUTI |-> <<237, 163>>, OTIR |-> <<237, 179>>,
     RETI |-> <<237, 77>>, RETN |-> <<237, 52, 53>>, RLA |-> <<23>>,
     RLCA |-> <<7>>, RLD |-> <<237, 111>>, RRA |-> <<31>>, RRCA |-> <<15>>,
     RRD |-> <<237, 103>>, SCF |-> <<55>>]

\* The mnemonics of op0.
Op0Names == DOMAIN op0

\* The addresses the line is assembled at.
Op0PCs == {0, 256}

\* Parse of a line holding an op0 mnemonic, with or without text after it,
\* then AsmPass counting the code.
Op0Parse ==
    /\ opl.at = "ready"
    /\ LET byCode == op0[opl.sOpCode]
           mc == IF opl.args THEN <<>> ELSE byCode
       IN  opl' = [opl EXCEPT !.at = "done", !.mc = mc,
                              !.sErr = IF opl.args THEN AsmErr("none", "args") ELSE "none",
                              !.pc = opl.pc0 + Len(mc)]
    /\ OpFrame

NextOp0 == Op0Parse

InitOp0 ==
    /\ \E m \in Op0Names, a \in BOOLEAN, pc \in Op0PCs :
          opl = [at |-> "ready", sOpCode |-> m, args |-> a, pc0 |-> pc, pc |-> pc,
                 mc |-> <<>>, sErr |-> "none"]
    /\ OpRest

SpecOp0 == InitOp0 /\ [][NextOp0]_vars

(***************************************************************************)
(* C19: every op0 mnemonic emits a fixed encoding of 1 or 2 bytes and      *)
(* advances the PC by that length; RETN emits ED 45; a zero-operand        *)
(* mnemonic followed by any argument records 'Unexpected arguments to      *)
(* opcode' and emits nothing.                                              *)
(***************************************************************************)
C19_Op0Encoding ==
    opl.at = "done" =>
        IF opl.args
        THEN opl.sErr = "args" /\ opl.mc = <<>> /\ opl.pc = opl.pc0
        ELSE /\ opl.sErr = "none"
             /\ Len(opl.mc) \in {1, 2}
             /\ opl.pc = opl.pc0 + Len(opl.mc)
             /\ opl.sOpCode = "RETN" => opl.mc = <<237, 69>>

(***************************************************************************)
(* Label resolution over several source files: Assemble points self.labels *)
(* at the table of the source it is about to assemble, Label stores the    *)
(* definitions of the source, and ExprEval resolves the names the source   *)
(* refers to.                                                              *)
(***************************************************************************)

\* Bound of SpecScope: the number of lines of a source file.
MaxScopeLines == 2

\* The name the sources define and refer to.
ScopeNames == {"foo"}

\* The lines of a source:  name::  (public, at the PC),  name EQU 1  (local),
\* DW name  (a reference; two bytes).
ScopeLines ==
    [op : {"label", "equ", "dw"}, name : ScopeNames]

\* Assemble: self.labels = self.locals[iSource], in either pass.
ScopeLabels(iSource) == iSource

\* Parse of one line with self.labels the table scope.labels, and AsmPass
\* counting its error and advancing the PC.
ScopeParse(s, line) ==
    LET labs == s.locals[s.labels]
        def == Label(s.publics, labs, "none", line.name, line.op = "label",
                     IF line.op = "equ" THEN 1 ELSE s.pc,
                     s.file, s.phase, s.bStrict)
        v == LabelValue(labs, s.publics, line.name)
        sErr == IF line.op = "dw"
                THEN IF v = NoAddr /\ UndefinedIsError(s.phase, TRUE)
                     THEN "undefined" ELSE "none"
                ELSE def.sErr
    IN  [s EXCEPT !.publics = IF line.op = "dw" THEN @ ELSE def.publics,
                  !.locals = IF line.op = "dw" THEN @
                             ELSE [@ EXCEPT ![s.labels] = def.labels],
                  !.ref = IF line.op = "dw"
                          THEN [done |-> TRUE, name |-> line.name, value |-> v]
                          ELSE [done |-> FALSE, name |-> "", value |-> 0],
                  !.sErr = sErr,
                  !.nErr = IF sErr # "none" THEN @ + 1 ELSE @,
                  !.pc = IF line.op = "dw" THEN @ + 2 ELSE @,
                  !.pos = @ + 1]

\* Assemble: the options, then the first source of pass 1.
ScopeStart(strict) ==
    /\ scope.file = 0 /\ scope.exit = NoAddr
    /\ scope' = [scope EXCEPT !.file = 1, !.labels = ScopeLabels(1),
                              !.bStrict = strict]
    /\ UNCHANGED scopesrc
    /\ ScopeFrame

\* AsmPass in pass 1: one more line of the current source.
ScopeLine1(line) ==
    /\ scope.phase = 1 /\ scope.file \in Files /\ scope.exit = NoAddr
    /\ scope.pos < MaxScopeLines
    /\ scopesrc' = [scopesrc EXCEPT ![scope.file] = Append(@, line)]
    /\ scope' = ScopeParse(scope, line)
    /\ ScopeFrame

\* AsmPass in pass 2: the next line of the current source.
ScopeLine2 ==
    /\ scope.phase = 2 /\ scope.file \in Files /\ scope.exit = NoAddr
    /\ scope.pos < Len(scopesrc[scope.file])
    /\ scope' = ScopeParse(scope, scopesrc[scope.file][scope.pos + 1])
    /\ UNCHANGED scopesrc
    /\ ScopeFrame

\* Assemble: the end of a source; the next source, pass 2 from PC 0 when
\* pass 1 counted no error, or the end of the run.
ScopeEndFile ==
    /\ scope.file \in Files /\ scope.exit = NoAddr
    /\ scope.phase = 2 => scope.pos = Len(scopesrc[scope.file])
    /\ LET quiet == [scope EXCEPT !.ref = [done |-> FALSE, name |-> "", value |-> 0],
                                  !.sErr = "none"]
       IN  IF scope.file < NFiles
           THEN scope' = [quiet EXCEPT !.file = scope.file + 1,
                                       !.labels = ScopeLabels(scope.file + 1),
                                       !.pos = 0]
           ELSE IF scope.phase = 1 /\ scope.nErr = 0
           THEN scope' = [quiet EXCEPT !.phase = 2, !.file = 1,
                                       !.labels = ScopeLabels(1),
                                       !.pos = 0, !.pc = 0]
           ELSE scope' = [quiet EXCEPT !.exit = IF scope.nErr > 0 THEN 1 ELSE 0]
    /\ UNCHANGED scopesrc
    /\ ScopeFrame

NextScope ==
    \/ \E b \in BOOLEAN : ScopeStart(b)
    \/ \E l \in ScopeLines : ScopeLine1(l)
    \/ ScopeLine2
    \/ ScopeEndFile

InitScope == ScopeIdle /\ ScopeRest

SpecScope == InitScope /\ [][NextScope]_vars

\* The source being assembled defines name as a local: by an equate, or by a
\* label of the name while no other source holds the public of that name.
ScopeDefines(f, name) ==
    \E i \in 1..Len(scopesrc[f]) :
        scopesrc[f][i].name = name /\ scopesrc[f][i].op \in {"equ", "label"}

(***************************************************************************)
(* C21: a name referred to while source f is assembled resolves to the     *)
(* local of f when f has one, whatever the publics hold, otherwise to the  *)
(* public, otherwise to nothing: the locals of another source are never    *)
(* consulted, and the table of f holds only names that f defines. In       *)
(* either pass.                                                            *)
(***************************************************************************)
C21_LocalsThenPublics ==
    /\ scope.ref.done =>
         LET loc == scope.locals[scope.file][scope.ref.name]
             pub == scope.publics[scope.ref.name]
         IN  scope.ref.value = IF loc.present THEN loc.value
                               ELSE IF pub.present THEN pub.value
                               ELSE NoAddr
    /\ \A f \in Files, n \in Names :
         scope.locals[f][n].present => ScopeDefines(f, n)

\* Pass 2 resolves a name that is a public of one source and a local, with
\* another value, of the source that refers to it.
C21_Witness ==
    /\ scope.phase = 2 /\ scope.ref.done
    /\ scope.locals[scope.file][scope.ref.name].present
    /\ HasValue(scope.publics[scope.ref.name])
    /\ scope.publics[scope.ref.name].value
         # scope.locals[scope.file][scope.ref.name].value
    /\ scope.publics[scope.ref.name].file # scope.file

\* v reduced modulo 2^17 into -0x10000..0xFFFF.
Fold17(v) == ((v + 65536) % 131072) - 65536

\* An expression [-] a op b over 16-bit literals, op one of + - *, evaluated.
EvWideDone ==
    /\ ev.at = "done"
    /\ Len(ev.src.opnds) = 2 /\ Len(ev.src.ops) = 1
    /\ \A i \in 1..2 : ev.src.opnds[i].t.term = "D"
    /\ ev.src.ops[1] \in EvalWideOps
    /\ \A i \in 1..2 : ev.src.opnds[i].un \in EvalSigns

\* What ExprEval returns for it.
EvWideValue == ExprEval(ev, Terms(ev.src, 1)).value

(***************************************************************************)
(* C28: an expression over 16-bit literals built from +, -, * and unary    *)
(* minus evaluates to its value reduced modulo 2^17 into -0x10000..0xFFFF, *)
(* and that reduced value is what the 16-bit range check is applied to.    *)
(***************************************************************************)
C28_SeventeenBit ==
    EvWideDone =>
      /\ ~ev.abort
      /\ ev.wrap = "EvalArith" => ev.value = Fold17(EvWideValue)
      /\ ev.wrap = "EvalArith16" =>
           ev.value = EvalArith16(Fold17(EvWideValue), ev.phase, ev.enable).value

(***************************************************************************)
(* Conditional assembly: the stack self.enable under the IF family, ELSE   *)
(* and ENDIF, and AsmPass at the end of a source file.                     *)
(***************************************************************************)

\* Bound of SpecCond: the number of conditional lines of a source file.
MaxCondLines == 4

\* IF / IFT expr, IFF / IFNOT expr with the value EvalArith16 returns for
\* expr; IFDEF name with arg 1 when a table holds the name; ELSE; ENDIF.
CondLines ==
    [op : {"IF", "IFNOT"}, arg : {0, 1, 2}]
      \cup [op : {"IFDEF"}, arg : {0, 1}]
      \cup [op : {"ELSE", "ENDIF"}, arg : {0}]

\* The condition of an IF-family line.
CondHolds(op, arg) ==
    CASE op = "IF" -> arg # 0
      [] op = "IFNOT" -> arg = 0
      [] op = "IFDEF" -> arg = 1

\* An ELSE that looks at the top of the stack only.
CondElseFlip(parent, top) == ~top

\* ELSE: enable[-2] and (not enable[-1]).
CondElse(parent, top) == parent /\ ~top

\* Parse of a conditional line: the stack and sErr it leaves.
CondParse(enable, line) ==
    LET n == Len(enable)
    IN  CASE line.op \in {"IF", "IFNOT", "IFDEF"} ->
               [enable |-> Append(enable, enable[n] /\ CondHolds(line.op, line.arg)),
                sErr |-> "none"]
          [] line.op = "ELSE" ->
               IF n >= 2
               THEN [enable |-> [enable EXCEPT ![n] = CondElse(enable[n - 1], enable[n])],
                     sErr |-> "none"]
               ELSE [enable |-> enable, sErr |-> AsmErr("none", "ELSE without IF")]
          [] line.op = "ENDIF" ->
               IF n < 2
               THEN [enable |-> enable,
                     sErr |-> AsmErr("none", "ENDIF with no corresponding IF")]
               ELSE [enable |-> SubSeq(enable, 1, n - 1), sErr |-> "none"]

\* Assemble: the dialect, then AsmPass on the first source, which notes the
\* depth of the stack (nEnable).
CondStart(style) ==
    /\ ifs.file = 0
    /\ ifs' = [ifs EXCEPT !.file = 1, !.style = style, !.nEnable = Len(ifs.enable)]
    /\ CondFrame

\* AsmPass: one conditional line of the source, its error counted.
CondLine(line) ==
    /\ ifs.file \in Files /\ ifs.pos < MaxCondLines
    /\ LET r == CondParse(ifs.enable, line)
       IN  ifs' = [ifs EXCEPT !.enable = r.enable, !.sErr = r.sErr,
                              !.nErr = IF r.sErr # "none" THEN @ + 1 ELSE @,
                              !.pos = @ + 1, !.op = line.op, !.arg = line.arg,
                              !.prev = ifs.enable]
    /\ CondFrame

\* AsmPass at the end of a source: a stack that is not as deep as at the
\* start of the source is cut back in the MA dialect when it is deeper, and
\* counted as an error otherwise. Then AsmPass on the next source, if any.
CondEndFile ==
    /\ ifs.file \in Files
    /\ LET n == Len(ifs.enable)
           cut == ifs.style = "MA" /\ n > ifs.nEnable
           left == IF n # ifs.nEnable /\ cut
                   THEN SubSeq(ifs.enable, 1, ifs.nEnable) ELSE ifs.enable
       IN  ifs' = [ifs EXCEPT
                     !.enable = left,
                     !.nErr = IF n # ifs.nEnable /\ ~cut THEN @ + 1 ELSE @,
                     !.sErr = "none", !.op = "none", !.arg = 0,
                     !.file = @ + 1, !.pos = 0, !.prev = left,
                     !.nEnable = Len(left)]
    /\ CondFrame

NextCond ==
    \/ \E s \in {"MA", "M80"} : CondStart(s)
    \/ \E l \in CondLines : CondLine(l)
    \/ CondEndFile

InitCond == CondIdle /\ CondRest

SpecCond == InitCond /\ [][NextCond]_vars

\* The last line handled was an IF-family line; an IF was open before it.
CondPushed == ifs.op \in {"IF", "IFNOT", "IFDEF"}
CondOpen == Len(ifs.prev) >= 2

(***************************************************************************)
(* C27: the conditional stack is never empty, its bottom entry is True and *)
(* every entry implies the entry below it; an IF-family line pushes top    *)
(* AND condition, ELSE sets the top to parent AND NOT top, ENDIF pops, and *)
(* an ELSE or ENDIF with no open IF records an error and leaves the stack  *)
(* as it was.                                                              *)
(***************************************************************************)
C27_ConditionalStack ==
    LET n == Len(ifs.prev)
    IN  /\ Len(ifs.enable) >= 1
        /\ ifs.enable[1]
        /\ \A i \in 2..Len(ifs.enable) : ifs.enable[i] => ifs.enable[i - 1]
        /\ CondPushed =>
              /\ ifs.enable = Append(ifs.prev, ifs.prev[n] /\
                                  ( \/ ifs.op = "IF" /\ ifs.arg # 0
                                    \/ ifs.op = "IFNOT" /\ ifs.arg = 0
                                    \/ ifs.op = "IFDEF" /\ ifs.arg = 1 ))
              /\ ifs.sErr = "none"
        /\ ifs.op = "ELSE" /\ CondOpen =>
              /\ ifs.enable = [ifs.prev EXCEPT ![n] = ifs.prev[n - 1] /\ ~ifs.prev[n]]
              /\ ifs.sErr = "none"
        /\ ifs.op = "ENDIF" /\ CondOpen =>
              /\ ifs.enable = SubSeq(ifs.prev, 1, n - 1)
              /\ ifs.sErr = "none"
        /\ ifs.op \in {"ELSE", "ENDIF"} /\ ~CondOpen =>
              /\ ifs.enable = ifs.prev
              /\ ifs.sErr # "none"

\* An ELSE inside a disabled block: the IF arm was disabled and so is the
\* ELSE arm.
C27_Witness ==
    /\ ifs.op = "ELSE" /\ Len(ifs.prev) >= 3
    /\ ~ifs.prev[Len(ifs.prev) - 1] /\ ~ifs.prev[Len(ifs.prev)]
    /\ ~ifs.enable[Len(ifs.enable)]

(***************************************************************************)
(* The program counter, the load counter and the sinks: the origin and     *)
(* segment directives of Parse, SetLoad, and AsmPass delivering the code   *)
(* of a line and advancing the counters, over the two passes of Assemble.  *)
(***************************************************************************)

\* Bound of SpecLoad: the number of lines of the source.
MaxLoadLines == 3

\* Addresses written in origin directives.
LoadAddrs == {0, 2}

\* The lines of a source. In every dialect: DB 1, BYTE 1 (reserve a byte),
\* ALIGN 2, IF 0, ENDIF, CSEG, DSEG. MA: ORG a, BORG a, OFFSET a, OFFSET. M80 and
\* PASMO: ORG a, .PHASE a, .DEPHASE. ZASM: LOAD a, ORG a.
LoadLines(style) ==
    [op : {"DB", "BYTE", "ALIGN", "IF", "ENDIF", "CSEG", "DSEG"}, arg : {0}]
      \cup [op : {"ORG"}, arg : LoadAddrs]
      \cup (CASE style = "MA" -> [op : {"OFFSET"}, arg : LoadAddrs \cup {NoAddr}]
                                   \cup [op : {"BORG"}, arg : LoadAddrs]
              [] style = "M80" -> [op : {".PHASE"}, arg : LoadAddrs]
                                    \cup [op : {".DEPHASE"}, arg : {0}]
              [] style = "ZASM" -> [op : {"LOAD"}, arg : LoadAddrs])

\* The position at which a sink takes the next byte, NoAddr before the sink
\* has an address.
BinPos(b) == IF b.base = NoAddr THEN NoAddr ELSE b.addr
HexPos(h) == IF h.addr = NoAddr THEN NoAddr ELSE h.addr + Len(h.data)

\* SetLoad: the overwrite test and the load counter set.
SetLoadCounter(s, addr) ==
    [s EXCEPT !.sErr = IF ~s.bUpdate /\ addr < s.lc[s.lseg]
                       THEN AsmErr(@, "Potential overwite of previous code")
                       ELSE @,
              !.lc = [@ EXCEPT ![s.lseg] = addr]]

\* SetLoad: self.binout.SetAddr in pass 2.
SetLoadBin(e, addr, bInit) ==
    IF e.phase = 2 /\ e.binopen
    THEN [e EXCEPT !.binout = BinSetAddr(@, addr, bInit)] ELSE e

\* SetLoad: self.hexout.SetAddr in pass 2, not reached when the binary sink
\* raised.
SetLoadHex(b, addr, bInit) ==
    IF b.binout.raised THEN [b EXCEPT !.at = "raised"]
    ELSE IF b.phase = 2 /\ b.hexopen
    THEN [b EXCEPT !.hexout = HexSetAddr(@, addr, bInit)]
    ELSE b

\* Assembler.SetLoad
SetLoad(s, addr, bInit) ==
    SetLoadHex(SetLoadBin(SetLoadCounter(s, addr), addr, bInit), addr, bInit)

\* Reformat.Output and CmntLine write only to an open file (self.fOut): the
\* number of lines written after n more are handed over.
RefWrites(open, written, n) == IF open THEN written + n ELSE written

\* Assemble going on to pass 2 whatever pass 1 counted.
PassTwoStartsAnyway(nErr) == TRUE

\* Assemble: sys.exit (1) after pass 1 when nErr > 0.
PassTwoStarts(nErr) == nErr = 0

\* AsmPass with the program counter advanced by the code only.
AdvancePCCode(pc, nCode, nSpace) == pc + nCode
\* AsmPass with the load counter advanced by the code only.
AdvanceLCCode(lc, nCode, nSpace) == lc + nCode

\* AsmPass: nCode += self.nSpace; pc[pseg] += nCode; lc[lseg] += nCode.
AdvancePC(pc, nCode, nSpace) == pc + nCode + nSpace
AdvanceLC(lc, nCode, nSpace) == lc + nCode + nSpace

\* pc[pseg] = lc[lseg] + offset after SetLoad, unless SetLoad raised.
ProgramFromLoad(l, offset) ==
    IF l.at = "raised" THEN l
    ELSE [l EXCEPT !.pc = [@ EXCEPT ![l.pseg] = l.lc[l.lseg] + offset]]

\* CSEG and DSEG: the segment selected.
SelectSegment(u, seg) == [u EXCEPT !.lseg = seg, !.pseg = seg]

\* OFFSET: the offset between the program and the load counter.
SetOffset(p) == [p EXCEPT !.offset = p.pc[p.pseg] - p.lc[p.lseg]]

\* The update flag an origin directive sets from the --update list.
SetUpdate(s, line) ==
    [s EXCEPT !.bUpdate = IF line.op \in {"CSEG", "DSEG"} THEN @ ELSE s.upd]

\* Parse of an origin or segment directive in an enabled block, the update
\* flag set.
OriginDirective(u, line, a) ==
    CASE line.op \in {"CSEG", "DSEG"} ->
           ProgramFromLoad(SetLoad(SelectSegment(u, IF line.op = "CSEG" THEN "C" ELSE "D"),
                                   u.lc[IF line.op = "CSEG" THEN "C" ELSE "D"], TRUE),
                           u.offset)
      [] line.op = "ORG" /\ u.style = "MA" ->
           ProgramFromLoad(SetLoad(u, a, TRUE), u.offset)
      [] line.op = "BORG" ->
           SetLoad([u EXCEPT !.pc = [@ EXCEPT ![u.pseg] = a]], a - u.offset, TRUE)
      [] line.op = "OFFSET" ->
           SetOffset(IF a # NoAddr
                     THEN [u EXCEPT !.pseg = "A", !.pc = [@ EXCEPT !["A"] = a]]
                     ELSE [u EXCEPT !.pseg = u.lseg,
                                    !.pc = [@ EXCEPT ![u.lseg] = u.lc[u.lseg]]])
      [] line.op = "ORG" /\ u.style = "M80" ->
           ProgramFromLoad(SetLoad(u, a, TRUE), 0)
      [] line.op = ".PHASE" ->
           [u EXCEPT !.pseg = "A", !.pc = [@ EXCEPT !["A"] = a]]
      [] line.op = ".DEPHASE" ->
           [u EXCEPT !.pseg = u.lseg, !.pc = [@ EXCEPT ![u.lseg] = u.lc[u.lseg]]]
      [] line.op = "LOAD" -> SetLoad(u, a, TRUE)
      [] line.op = "ORG" /\ u.style = "ZASM" ->
           [u EXCEPT !.pc = [@ EXCEPT ![u.pseg] = a]]

\* Parse of an origin or segment directive in an enabled block.
LoadDirective(s, line) == OriginDirective(SetUpdate(s, line), line, line.arg)

\* Parse: self.sErr cleared at the start of a line.
ClearErr(s) == [s EXCEPT !.sErr = "none"]

\* The top of the conditional stack, self.enable[-1].
Enabled(s) == s.enable[Len(s.enable)]

\* Parse of IF and ENDIF: the conditional stack and the error.
LoadCond(s, r) == [s EXCEPT !.enable = r.enable, !.sErr = r.sErr]

\* Parse of one line, self.sErr cleared: the assembler, with the code and the
\* reserve the line leaves.
LoadParseLine(s, line) ==
    CASE line.op \in {"IF", "ENDIF"} ->
           [s |-> LoadCond(s, CondParse(s.enable, line)), mc |-> <<>>, nSpace |-> 0]
      [] line.op = "DB" -> [s |-> s, mc |-> <<1>>, nSpace |-> 0]
      [] line.op = "BYTE" ->
           [s |-> s, mc |-> <<>>, nSpace |-> IF Enabled(s) THEN 1 ELSE 0]
      [] line.op = "ALIGN" ->
           [s |-> s, mc |-> <<>>,
            nSpace |-> IF Enabled(s) /\ s.pc[s.pseg] % 2 > 0
                       THEN 2 - (s.pc[s.pseg] % 2) ELSE 0]
      [] OTHER ->
           [s |-> IF Enabled(s) THEN LoadDirective(s, line)
                  ELSE IF line.op \in {"CSEG", "DSEG"} THEN s
                  ELSE [s EXCEPT !.bUpdate = s.upd],
            mc |-> <<>>, nSpace |-> 0]

\* Parse of one line: the assembler, with the code and the reserve it leaves.
LoadParse(s0, line) == LoadParseLine(ClearErr(s0), line)

\* AsmPass: the error of the line counted, the line read.
CountLine(s) ==
    [s EXCEPT !.nErr = IF s.sErr # "none" THEN @ + 1 ELSE @, !.pos = @ + 1]

\* AsmPass: SetLoad (lc[lseg], False) before the code of an enabled line.
LoadAtCounter(c, mc) ==
    IF Enabled(c) /\ Len(mc) > 0 /\ c.at # "raised"
    THEN SetLoad(c, c.lc[c.lseg], FALSE) ELSE c

\* AsmPass: the code of an enabled line handed to the sinks that exist.
DeliverCode(l, mc) ==
    IF Enabled(l) /\ Len(mc) > 0 /\ l.at # "raised"
    THEN [l EXCEPT !.binout = IF l.binopen THEN BinData(@, mc) ELSE @,
                   !.hexout = IF l.hexopen THEN HexData(@, mc, l.lc[l.lseg]) ELSE @]
    ELSE l

\* AsmPass: both counters advanced after an enabled line.
AdvanceCounters(d, nCode, nSpace) ==
    IF Enabled(d) /\ d.at # "raised"
    THEN [d EXCEPT !.pc = [@ EXCEPT ![d.pseg] = AdvancePC(@, nCode, nSpace)],
                   !.lc = [@ EXCEPT ![d.lseg] = AdvanceLC(@, nCode, nSpace)]]
    ELSE d

\* AsmPass after Parse: the error counted, then in an enabled block the code
\* delivered to the sinks at the load counter and both counters advanced.
AfterParse(s, mc, nSpace) ==
    AdvanceCounters(DeliverCode(LoadAtCounter(CountLine(s), mc), mc), Len(mc), nSpace)

\* The reformatter's line, and the ghost last: the line and the counters
\* around it.
LoadGhost(f, s0, line, r) ==
    [f EXCEPT !.refout = IF f.at # "raised" THEN RefWrites(f.refopen, @, 1) ELSE @,
              !.last = [op |-> line.op, enabled |-> Enabled(s0),
                        mc |-> r.mc, nSpace |-> r.nSpace,
                        pc0 |-> s0.pc[s0.pseg], lc0 |-> s0.lc[s0.lseg],
                        pc1 |-> f.pc[f.pseg], lc1 |-> f.lc[f.lseg],
                        pcs |-> s0.pc, lcs |-> s0.lc,
                        binpos |-> BinPos(s0.binout), hexpos |-> HexPos(s0.hexout),
                        bUpdate |-> f.bUpdate]]

LoadParsed(s0, line, r) == LoadGhost(AfterParse(r.s, r.mc, r.nSpace), s0, line, r)

\* AsmPass for one line: Parse, then the rest of the loop body.
LoadStep(s0, line) == LoadParsed(s0, line, LoadParse(s0, line))

NoLine == [op |-> "none", enabled |-> TRUE, mc |-> <<>>, nSpace |-> 0,
           pc0 |-> 0, lc0 |-> 0, pc1 |-> 0, lc1 |-> 0,
           pcs |-> ZeroCounters, lcs |-> ZeroCounters,
           binpos |-> NoAddr, hexpos |-> NoAddr, bUpdate |-> FALSE]

\* Assemble: the options of the command line, then pass 1.
LoadStart(style, upd, sinks) ==
    /\ ld.at = "none"
    /\ ld' = [ld EXCEPT !.at = "pass", !.style = style, !.upd = upd, !.bUpdate = upd,
                        !.bin = "bin" \in sinks, !.hex = "hex" \in sinks,
                        !.out = "out" \in sinks]
    /\ UNCHANGED ldsrc
    /\ LoadFrame

\* AsmPass in pass 1: one more line of the source.
LoadLine1(line) ==
    /\ ld.at = "pass" /\ ld.phase = 1 /\ ld.pos < MaxLoadLines
    /\ line \in LoadLines(ld.style)
    /\ ldsrc' = Append(ldsrc, line)
    /\ ld' = LoadStep(ld, line)
    /\ LoadFrame

\* AsmPass in pass 2: the next line of the source.
LoadLine2 ==
    /\ ld.at = "pass" /\ ld.phase = 2 /\ ld.pos < Len(ldsrc)
    /\ ld' = LoadStep(ld, ldsrc[ld.pos + 1])
    /\ UNCHANGED ldsrc
    /\ LoadFrame

\* AsmPass at the end of the source: an IF left open is cut off (MA) or
\* counted as an error.
LoadEndFile(s) ==
    IF Len(s.enable) = 1 THEN s
    ELSE IF s.style = "MA" THEN [s EXCEPT !.enable = <<TRUE>>]
    ELSE [s EXCEPT !.nErr = @ + 1]

\* The lines Assemble hands the reformatter before a source in pass 2: the
\* 'Converted to style' comment, EVAL and LABCASE.
LoadHeadLines == 3

\* The sinks a command line asks for.
LoadSinks == {{}, {"bin"}, {"hex"}, {"bin", "hex", "out"}}

\* Assemble after pass 1: exit on an error, otherwise pass 2 with the
\* counters and the offset at zero and the sinks asked for opened.
LoadEndPass1 ==
    /\ ld.at = "pass" /\ ld.phase = 1
    /\ LET e == LoadEndFile(ld)
       IN  ld' = IF ~PassTwoStarts(e.nErr)
                 THEN [e EXCEPT !.at = "exit", !.last = NoLine]
                 ELSE [e EXCEPT !.phase = 2, !.pos = 0, !.pc = ZeroCounters,
                                !.lc = ZeroCounters, !.offset = 0,
                                !.binopen = e.bin, !.hexopen = e.hex,
                                !.binout = BinInit, !.hexout = HexInit,
                                !.refopen = e.out,
                                !.refout = RefWrites(e.out, @, LoadHeadLines),
                                !.last = NoLine]
    /\ UNCHANGED ldsrc
    /\ LoadFrame

\* Assemble after pass 2: the sinks closed.
LoadEndPass2 ==
    /\ ld.at = "pass" /\ ld.phase = 2 /\ ld.pos = Len(ldsrc)
    /\ LET e == LoadEndFile(ld)
       IN  ld' = [e EXCEPT !.at = "exit", !.last = NoLine,
                           !.binout = IF e.binopen THEN BinClose(@) ELSE @,
                           !.hexout = IF e.hexopen THEN HexClose(@, 0) ELSE @,
                           !.refout = RefWrites(e.refopen, @, 1),
                           !.refopen = FALSE]
    /\ UNCHANGED ldsrc
    /\ LoadFrame

NextLoad ==
    \/ \E st \in {"MA", "M80", "ZASM"}, u \in BOOLEAN, k \in LoadSinks :
          LoadStart(st, u, k)
    \/ \E l \in LoadLines("MA") \cup LoadLines("M80") \cup LoadLines("ZASM") : LoadLine1(l)
    \/ LoadLine2
    \/ LoadEndPass1
    \/ LoadEndPass2

InitLoad == LoadIdle /\ LoadRest

SpecLoad == InitLoad /\ [][NextLoad]_vars

\* s ends with t.
EndsWith(s, t) ==
    Len(s) >= Len(t) /\ SubSeq(s, Len(s) - Len(t) + 1, Len(s)) = t

\* Pass 2 has just handled a line of an enabled block that left code.
LoadEmitted ==
    /\ ld.at = "pass" /\ ld.phase = 2
    /\ ld.last.op # "none" /\ ld.last.enabled /\ ld.last.mc # <<>>

(***************************************************************************)
(* C22: in pass 2 the code of every line of an enabled block, from the     *)
(* first line of the source on, is taken by both sinks, in order, at the   *)
(* load counter the line started at.                                       *)
(***************************************************************************)
C22_BytesDelivered ==
    LoadEmitted =>
      LET n == Len(ld.last.mc)
      IN  /\ ld.binopen =>
                /\ BinPos(ld.binout) = ld.last.lc0 + n
                /\ EndsWith(ld.binout.data, ld.last.mc)
          /\ ld.hexopen =>
                /\ HexPos(ld.hexout) = ld.last.lc0 + n
                /\ EndsWith(ld.hexout.data, ld.last.mc)
                /\ EndsWith(ld.hexout.loads, [i \in 1..n |-> ld.last.lc0 + i - 1])

\* Pass 2 has handled a line (or a sink raised while it did).
LoadHandled == ld.phase = 2 /\ ld.last.op # "none"

(***************************************************************************)
(* C23: with no --update option, no line of pass 2 moves the position at   *)
(* which a sink takes bytes backward: the load addresses at which bytes    *)
(* reach the binary and the hex sink never decrease.                       *)
(***************************************************************************)
C23_NoBackwardLoad ==
    LoadHandled /\ ~ld.upd =>
      /\ ld.binopen /\ ld.last.binpos # NoAddr =>
            ~ld.binout.raised /\ BinPos(ld.binout) >= ld.last.binpos
      /\ ld.hexopen /\ ld.last.hexpos # NoAddr =>
            HexPos(ld.hexout) >= ld.last.hexpos

\* AsmPass has handled a line.
LoadLineDone == ld.at = "pass" /\ ld.last.op # "none"

\* The directives that set a counter or select a segment.
LoadSetsCounter(op) ==
    op \in {"ORG", "BORG", "OFFSET", ".PHASE", ".DEPHASE", "LOAD", "CSEG", "DSEG"}

C26_SinksOpenInPassTwo ==
    /\ ld.phase = 1 =>
          /\ ~ld.binopen /\ ~ld.hexopen /\ ~ld.refopen
          /\ ld.binout = BinInit /\ ld.hexout = HexInit /\ ld.refout = 0
    /\ ld.phase = 2 /\ ld.pos = 0 => ld.nErr = 0
    /\ ld.phase = 2 /\ ld.at = "pass" =>
          ld.binopen = ld.bin /\ ld.hexopen = ld.hex /\ ld.refopen = ld.out

\* Pass 1 over a source with code has ended without error and pass 2 has
\* opened the three sinks; nothing but the reformatter's heading is written.
C26_Witness ==
    /\ ld.phase = 2 /\ ld.pos = 0 /\ ld.binopen /\ ld.hexopen /\ ld.refopen
    /\ \E i \in 1..Len(ldsrc) : ldsrc[i].op = "DB"
    /\ \E i \in 1..Len(ldsrc) : ldsrc[i].op = "ORG"
    /\ ld.binout = BinInit /\ ld.hexout = HexInit /\ ld.refout = LoadHeadLines

\* ---------------------------------------------------------------------------
\* The assembler's modes over the two passes: CPU type, evaluator mode,
\* segments, REPT stack and fill byte, in a source with conditionals (M80).
\* ---------------------------------------------------------------------------

MaxModeLines == 3

\* The lines of a source: .8080, .Z80, EVAL SIMPLE, DSEG, DB 1+2*3, LD A,B,
\* JP 5, foo:, IF 0, ENDIF, FILL 0AAH, REPT 1, ENDM.
ModeLines ==
    [op : {".8080", ".Z80", "DSEG", "DB", "LD", "JP", "LABEL", "IF", "ENDIF", "ENDM"},
     arg : {0}]
      \cup [op : {"EVAL", "REPT"}, arg : {1}]
      \cup [op : {"FILL"}, arg : {170}]

\* The expression 1+2*3 of the DB line.
ModeExpr ==
    [opnds |-> <<Opnd(<<>>, Val(1)), Opnd(<<>>, Val(2)), Opnd(<<>>, Val(3))>>,
     ops |-> <<"+", "*">>]

\* ExprEval of 1+2*3 in the evaluator mode of the moment.
ModeValue(s) ==
    ExprEval(EvalInput("EvalArith", ModeExpr, s.eval, s.phase,
                       s.enable[Len(s.enable)], NoLabels, NoLabels),
             Terms(ModeExpr, 1)).value

\* BinOut.SetFill
SetFill(b, byFill) == [b EXCEPT !.fill = byFill]

\* Parse of a label: the symbol table and the error Label leaves.
ModeLabel(s, d) == [s EXCEPT !.labels = d.labels, !.sErr = d.sErr]

\* Parse of one line, self.sErr cleared: the assembler and the code self.mc
\* the line leaves.
ModeParseLine(s, line) ==
    CASE line.op \in {"IF", "ENDIF"} ->
           [s |-> LoadCond(s, CondParse(s.enable, line)), mc |-> <<>>]
      [] line.op = "LABEL" ->
           [s |-> IF Enabled(s)
                  THEN ModeLabel(s, Label(NoLabels, s.labels, "none", "foo", FALSE,
                                          s.pc[s.pseg], 1, s.phase, FALSE))
                  ELSE s,
            mc |-> <<>>]
      [] line.op = "REPT" ->
           [s |-> IF Enabled(s) /\ line.arg > 0
                  THEN [s EXCEPT !.macros = Append(@, line.arg)] ELSE s,
            mc |-> <<>>]
      [] line.op = "ENDM" ->
           [s |-> IF Len(s.macros) = 0
                  THEN [s EXCEPT !.sErr = AsmErr(@, "ENDM without macro")]
                  ELSE [s EXCEPT !.macros = SubSeq(@, 1, Len(@) - 1)],
            mc |-> <<>>]
      [] line.op = "FILL" ->
           [s |-> [s EXCEPT !.binout = IF s.binopen THEN SetFill(@, line.arg) ELSE @],
            mc |-> <<>>]
      [] line.op \in {".8080", ".Z80"} ->
           [s |-> [s EXCEPT !.cpu_type = IF line.op = ".8080" THEN "8080" ELSE "Z80"],
            mc |-> <<>>]
      [] line.op = "DSEG" ->
           [s |-> IF Enabled(s) THEN LoadDirective(s, line) ELSE s, mc |-> <<>>]
      [] line.op = "EVAL" -> [s |-> [s EXCEPT !.eval = line.arg], mc |-> <<>>]
      [] line.op = "DB" -> [s |-> s, mc |-> <<ModeValue(s)>>]
      [] line.op = "LD" ->
           IF s.cpu_type = "8080"
           THEN [s |-> [s EXCEPT !.sErr = AsmErr(@, "Invalid OpCode")], mc |-> <<>>]
           ELSE [s |-> s, mc |-> <<120>>]
      [] line.op = "JP" ->
           [s |-> s, mc |-> IF s.cpu_type = "8080" THEN <<242, 5, 0>> ELSE <<195, 5, 0>>]

\* Parse of one line: the assembler and the code self.mc the line leaves.
ModeParse(s0, line) == ModeParseLine(ClearErr(s0), line)

ModeParsed(r) == [s |-> AfterParse(r.s, r.mc, 0), mc |-> r.mc]

\* AsmPass for one line: Parse, the error counted, then in an enabled block
\* the code delivered to the sinks at the load counter and both counters
\* advanced.
ModeStep(s0, line) == ModeParsed(ModeParse(s0, line))

\* The ghost of a line: the line, whether its block was enabled, its code,
\* its address, its error, and what it was to leave alone before and after.
ModeLast(s0, line, r) ==
    [op |-> line.op, enabled |-> s0.enable[Len(s0.enable)], mc |-> r.mc,
     pc0 |-> s0.pc[s0.pseg], sErr |-> r.s.sErr,
     before |-> ModeKept(s0), after |-> ModeKept(r.s)]

\* Assemble: the CPU type of the command line, then pass 1.
ModeStart(cpu) ==
    /\ md.s.at = "none"
    /\ md' = [md EXCEPT !.s = [@ EXCEPT !.at = "pass", !.cpu0 = cpu, !.cpu_type = cpu]]
    /\ UNCHANGED mdsrc
    /\ ModeFrame

\* AsmPass in pass 1: one more line of the source.
ModeLine1(line) ==
    /\ md.s.at = "pass" /\ md.s.phase = 1 /\ md.s.pos < MaxModeLines
    /\ line \in ModeLines
    /\ mdsrc' = Append(mdsrc, line)
    /\ LET r == ModeStep(md.s, line)
       IN  md' = [s |-> r.s, p1 |-> Append(md.p1, [pc |-> md.s.pc[md.s.pseg], mc |-> r.mc]),
                  last |-> ModeLast(md.s, line, r)]
    /\ ModeFrame

\* AsmPass in pass 2: the next line of the source.
ModeLine2 ==
    /\ md.s.at = "pass" /\ md.s.phase = 2 /\ md.s.pos < Len(mdsrc)
    /\ LET r == ModeStep(md.s, mdsrc[md.s.pos + 1])
       IN  md' = [md EXCEPT !.s = r.s, !.last = ModeLast(md.s, mdsrc[md.s.pos + 1], r)]
    /\ UNCHANGED mdsrc
    /\ ModeFrame

\* Assemble after pass 1: exit on an error, otherwise pass 2 with pc, lc and
\* offset at zero (3071-3073) and both sinks opened; nothing else is reset.
ModeEndPass1 ==
    /\ md.s.at = "pass" /\ md.s.phase = 1
    /\ LET e == LoadEndFile(md.s)
       IN  md' = [md EXCEPT
                    !.s = IF ~PassTwoStarts(e.nErr) THEN [e EXCEPT !.at = "exit"]
                          ELSE [e EXCEPT !.phase = 2, !.pos = 0, !.pc = ZeroCounters,
                                         !.lc = ZeroCounters, !.offset = 0,
                                         !.binopen = TRUE, !.hexopen = TRUE,
                                         !.binout = BinInit, !.hexout = HexInit],
                    !.last = ModeNoLine]
    /\ UNCHANGED mdsrc
    /\ ModeFrame

\* Assemble after pass 2: the sinks closed.
ModeEndPass2 ==
    /\ md.s.at = "pass" /\ md.s.phase = 2 /\ md.s.pos = Len(mdsrc)
    /\ LET e == LoadEndFile(md.s)
       IN  md' = [md EXCEPT !.s = [e EXCEPT !.at = "exit", !.binout = BinClose(@),
                                            !.hexout = HexClose(@, 0)],
                            !.last = ModeNoLine]
    /\ UNCHANGED mdsrc
    /\ ModeFrame

NextMode ==
    \/ \E c \in {"Z80", "8080"} : ModeStart(c)
    \/ \E l \in ModeLines : ModeLine1(l)
    \/ ModeLine2
    \/ ModeEndPass1
    \/ ModeEndPass2

InitMode == ModeIdle /\ ModeRest

SpecMode == InitMode /\ [][NextMode]_vars

\* A line of pass 2 has been handled.
ModeLineDone == md.s.phase = 2 /\ md.s.pos > 0 /\ md.last.op # "none"

\* C29: pass 2 begins from the state pass 1 began from (PC, LC and offset
\* zero, segments 'A', the CPU type of the command line, evaluator mode 0,
\* update flag, empty REPT stack), and every line has in pass 2 the code and
\* the address it had in pass 1.
C29_PassTwoAsPassOne ==
    /\ md.s.phase = 2 /\ md.s.pos = 0 =>
          /\ md.s.pc = ZeroCounters /\ md.s.lc = ZeroCounters /\ md.s.offset = 0
          /\ md.s.lseg = "A" /\ md.s.pseg = "A"
          /\ md.s.cpu_type = md.s.cpu0
          /\ md.s.eval = 0
          /\ md.s.bUpdate = md.s.upd
          /\ md.s.macros = <<>>
    /\ ModeLineDone =>
          /\ md.last.mc = md.p1[md.s.pos].mc
          /\ md.last.pc0 = md.p1[md.s.pos].pc

\* C30: a line handled in a disabled block that is not a conditional leaves
\* PC, LC, segments, symbol table, REPT stack, CPU type, evaluator mode,
\* fill byte and both sinks as they were and records no error.
C30_DisabledLineChangesNothing ==
    md.last.op \notin {"none", "IF", "ENDIF"} /\ ~md.last.enabled =>
        /\ md.last.after = md.last.before
        /\ md.last.sErr = "none"

====
